---- MODULE Spec2Model ----
(***************************************************************************)
(* Model of the http-acl access-control engine and of its reqwest          *)
(* enforcement adapters.                                                   *)
(*                                                                         *)
(*   src/http-acl/src/acl.rs          HttpAcl (policy) and its queries     *)
(*   src/src/acl.rs                   the earlier HttpAcl ("legacy" below) *)
(*   src/http-acl/src/utils/authority.rs   Authority::parse                *)
(*   src/http-acl-reqwest/src/lib.rs  HttpAclMiddleware, HttpAclDnsResolver*)
(*                                                                         *)
(* Data representation                                                     *)
(*   IPv4 address   a 4-tuple of octets; Ipv4Addr's Ord is the             *)
(*                  lexicographic order of the octets                      *)
(*   host string    the sequence of its dot-separated labels               *)
(*                  ("example.com" is <<"example", "com">>)                *)
(*   URL path       the sequence of its segments ("/a/b" is <<"a", "b">>)  *)
(*   Option<T>      None is the value None below                           *)
(***************************************************************************)
EXTENDS Integers, Sequences, FiniteSets, TLC

VARIABLES
    builder,    \* the HttpAclBuilder being configured (None where none is)
    acl,        \* the HttpAcl shared by the middleware and the resolver
    lacl,       \* a legacy HttpAcl (src/src/acl.rs)
    q,          \* the last query made of a policy: [fn, arg]
    out,        \* the classification that query returned
    pc,         \* position of the client: idle, pending, forwarded, resolved, rejected
    req,        \* the request being sent
    hres,       \* what HttpAclMiddleware::handle returned for req
    dns,        \* what the delegate resolver answers now
    rname,      \* the name of the last HttpAclDnsResolver::resolve call
    rans,       \* the delegate's answer consumed by that call
    rres,       \* what that call returned
    delegated,  \* number of delegate invocations made by that call
    conn        \* socket addresses handed to the transport for req

vars == <<builder, acl, lacl, q, out, pc, req, hres, dns, rname, rans, rres, delegated, conn>>

None == [none |-> TRUE]
Some(x) == [some |-> x]

(***************************************************************************)
(* AclClassification                                                       *)
(***************************************************************************)
AllowedUserAcl == [tag |-> "AllowedUserAcl", reason |-> ""]
AllowedDefault == [tag |-> "AllowedDefault", reason |-> ""]
DeniedUserAcl == [tag |-> "DeniedUserAcl", reason |-> ""]
DeniedDefault == [tag |-> "DeniedDefault", reason |-> ""]
DeniedNotGlobal == [tag |-> "DeniedNotGlobal", reason |-> ""]
DeniedPrivateRange == [tag |-> "DeniedPrivateRange", reason |-> ""]
Denied(reason) == [tag |-> "Denied", reason |-> reason]

is_allowed(c) == c.tag \in {"AllowedUserAcl", "AllowedDefault"}

\* is_denied without the variant that carries a reason
is_denied_unit_variants(c) == c.tag \in {"DeniedUserAcl", "DeniedDefault", "DeniedNotGlobal"}

is_denied(c) == c.tag \in {"DeniedUserAcl", "Denied", "DeniedDefault", "DeniedNotGlobal"}

legacy_is_denied(c) ==
    c.tag \in {"DeniedUserAcl", "Denied", "DeniedDefault", "DeniedNotGlobal",
               "DeniedPrivateRange"}

(***************************************************************************)
(* IP addresses, ranges and networks                                       *)
(***************************************************************************)
\* Ord for Ipv4Addr: octets compared left to right.
IpLe(a, b) ==
    \/ a[1] < b[1]
    \/ a[1] = b[1] /\ a[2] < b[2]
    \/ a[1] = b[1] /\ a[2] = b[2] /\ a[3] < b[3]
    \/ a[1] = b[1] /\ a[2] = b[2] /\ a[3] = b[3] /\ a[4] <= b[4]

\* RangeInclusive<IpAddr>::contains
IpRangeContains(r, ip) == IpLe(r.start, ip) /\ IpLe(ip, r.end)

\* RangeInclusive<u16>::contains
PortRangeContains(r, port) == r.start <= port /\ port <= r.end

\* IpNet::network / IpNet::broadcast for the octet-aligned prefix lengths
Network(net) == [i \in 1..4 |-> IF i * 8 <= net.prefix_len THEN net.addr[i] ELSE 0]
Broadcast(net) == [i \in 1..4 |-> IF i * 8 <= net.prefix_len THEN net.addr[i] ELSE 255]

\* IpNet::contains
IpNetContains(net, ip) == IpLe(Network(net), ip) /\ IpLe(ip, Broadcast(net))

\* utils::ip::is_private_ip: the private-use blocks 10/8, 172.16/12, 192.168/16
is_private_ip(ip) ==
    \/ ip[1] = 10
    \/ ip[1] = 172 /\ ip[2] >= 16 /\ ip[2] <= 31
    \/ ip[1] = 192 /\ ip[2] = 168

\* IpAddr::is_loopback: 127/8
is_loopback(ip) == ip[1] = 127

\* utils::ip::is_global_ip: not in a private, loopback, link-local,
\* documentation or reserved block
is_global_ip(ip) ==
    ~ \/ ip[1] = 0
      \/ is_private_ip(ip)
      \/ ip[1] = 100 /\ ip[2] >= 64 /\ ip[2] <= 127
      \/ is_loopback(ip)
      \/ ip[1] = 169 /\ ip[2] = 254
      \/ ip[1] = 192 /\ ip[2] = 0 /\ ip[3] = 0
      \/ ip[1] = 192 /\ ip[2] = 0 /\ ip[3] = 2
      \/ ip[1] = 198 /\ ip[2] = 51 /\ ip[3] = 100
      \/ ip[1] = 203 /\ ip[2] = 0 /\ ip[3] = 113
      \/ ip[1] = 198 /\ ip[2] \in {18, 19}
      \/ ip[1] >= 240

(***************************************************************************)
(* HttpRequestMethod                                                       *)
(***************************************************************************)
StandardMethods ==
    {"CONNECT", "DELETE", "GET", "HEAD", "OPTIONS", "PATCH", "POST", "PUT", "TRACE"}

\* The enum's values: a standard variant, or OTHER(verb) carrying the verb.
Method(variant) == [variant |-> variant, other |-> ""]
Other(verb) == [variant |-> "OTHER", other |-> verb]

\* impl From<&str> for HttpRequestMethod
MethodFrom(verb) == IF verb \in StandardMethods THEN Method(verb) ELSE Other(verb)

(***************************************************************************)
(* The path router (matchit::Router) as the policy uses it: a set of       *)
(* templates, each a sequence of segments, and at(path) succeeding when    *)
(* some template matches.                                                  *)
(***************************************************************************)
Lit(s) == [kind |-> "lit", s |-> s]
Param == [kind |-> "param", s |-> ""]
CatchAll == [kind |-> "catchall", s |-> ""]

\* A template matches a path when its literal segments are equal, a named
\* parameter stands for one non-empty segment and a trailing catch-all for
\* the non-empty rest.
TemplateMatches(t, path) ==
    IF t # <<>> /\ t[Len(t)].kind = "catchall"
    THEN /\ Len(path) >= Len(t)
         /\ path[Len(t)] # ""
         /\ \A i \in 1..(Len(t) - 1) :
                \/ t[i].kind = "lit" /\ t[i].s = path[i]
                \/ t[i].kind = "param" /\ path[i] # ""
    ELSE /\ Len(path) = Len(t)
         /\ \A i \in 1..Len(t) :
                \/ t[i].kind = "lit" /\ t[i].s = path[i]
                \/ t[i].kind = "param" /\ path[i] # ""

\* Router::at(path).is_ok()
RouterAt(router, path) == \E t \in router : TemplateMatches(t, path)

(***************************************************************************)
(* HttpAcl (src/http-acl/src/acl.rs)                                       *)
(***************************************************************************)
PortRange(a, b) == [start |-> a, end |-> b]
IpRange(a, b) == [start |-> a, end |-> b]

\* impl Default for HttpAcl; HttpAclBuilder::new().build() is the same policy
DefaultAcl ==
    [allow_http |-> TRUE,
     allow_https |-> TRUE,
     allowed_methods |-> {Method(m) : m \in StandardMethods},
     denied_methods |-> {},
     allowed_hosts |-> {},
     denied_hosts |-> {},
     allowed_port_ranges |-> <<PortRange(80, 80), PortRange(443, 443)>>,
     denied_port_ranges |-> <<>>,
     allowed_ip_ranges |-> <<>>,
     denied_ip_ranges |-> <<>>,
     static_dns_mapping |-> <<>>,
     allowed_headers |-> <<>>,
     denied_headers |-> <<>>,
     allowed_url_paths_router |-> {},
     denied_url_paths_router |-> {},
     validate_fn |-> None,
     allow_non_global_ip_ranges |-> FALSE,
     method_acl_default |-> FALSE,
     host_acl_default |-> FALSE,
     port_acl_default |-> FALSE,
     ip_acl_default |-> FALSE,
     header_acl_default |-> TRUE,
     url_path_acl_default |-> TRUE]

\* is_ip_in_ranges with the range end left out
is_ip_in_ranges_half_open(ip, ranges) ==
    \E i \in 1..Len(ranges) :
        IpLe(ranges[i].start, ip) /\ IpLe(ip, ranges[i].end) /\ ip # ranges[i].end

\* HttpAcl::is_ip_in_ranges
is_ip_in_ranges(ip, ranges) ==
    \E i \in 1..Len(ranges) : IpRangeContains(ranges[i], ip)

\* HttpAcl::is_port_in_ranges
is_port_in_ranges(port, ranges) ==
    \E i \in 1..Len(ranges) : PortRangeContains(ranges[i], port)

\* HttpAcl::is_scheme_allowed
is_scheme_allowed(a, scheme) ==
    IF (scheme = "http" /\ a.allow_http) \/ (scheme = "https" /\ a.allow_https)
    THEN AllowedUserAcl
    ELSE DeniedUserAcl

\* is_method_allowed with the deny-list consulted first
is_method_allowed_deny_first(a, verb) ==
    LET method == MethodFrom(verb) IN
    IF method \in a.denied_methods THEN DeniedUserAcl
    ELSE IF method \in a.allowed_methods THEN AllowedUserAcl
    ELSE IF a.method_acl_default THEN AllowedDefault
    ELSE DeniedDefault

\* HttpAcl::is_method_allowed; the argument is the verb, converted by Into
is_method_allowed(a, verb) ==
    LET method == MethodFrom(verb) IN
    IF method \in a.allowed_methods THEN AllowedUserAcl
    ELSE IF method \in a.denied_methods THEN DeniedUserAcl
    ELSE IF a.method_acl_default THEN AllowedDefault
    ELSE DeniedDefault

\* h is host or a parent domain of host
IsSuffix(h, host) ==
    Len(h) <= Len(host) /\ SubSeq(host, Len(host) - Len(h) + 1, Len(host)) = h

\* is_host_allowed matching parent domains too
is_host_allowed_suffix(a, host) ==
    IF \E h \in a.denied_hosts : IsSuffix(h, host) THEN DeniedUserAcl
    ELSE IF \E h \in a.allowed_hosts : IsSuffix(h, host) THEN AllowedUserAcl
    ELSE IF a.host_acl_default THEN AllowedDefault
    ELSE DeniedDefault

\* HttpAcl::is_host_allowed
is_host_allowed(a, host) ==
    IF \E h \in a.denied_hosts : h = host THEN DeniedUserAcl
    ELSE IF \E h \in a.allowed_hosts : h = host THEN AllowedUserAcl
    ELSE IF a.host_acl_default THEN AllowedDefault
    ELSE DeniedDefault

\* HttpAcl::is_port_allowed
is_port_allowed_allow_first(a, port) ==
    IF is_port_in_ranges(port, a.allowed_port_ranges) THEN AllowedUserAcl
    ELSE IF is_port_in_ranges(port, a.denied_port_ranges) THEN DeniedUserAcl
    ELSE IF a.port_acl_default THEN AllowedDefault
    ELSE DeniedDefault

is_port_allowed(a, port) ==
    IF is_port_in_ranges(port, a.denied_port_ranges) THEN DeniedUserAcl
    ELSE IF is_port_in_ranges(port, a.allowed_port_ranges) THEN AllowedUserAcl
    ELSE IF a.port_acl_default THEN AllowedDefault
    ELSE DeniedDefault

\* is_ip_allowed with the allowed ranges consulted before the non-global gate
is_ip_allowed_ranges_first(a, ip) ==
    IF is_ip_in_ranges(ip, a.allowed_ip_ranges) THEN AllowedUserAcl
    ELSE IF ~is_global_ip(ip) /\ ~a.allow_non_global_ip_ranges THEN DeniedNotGlobal
    ELSE IF is_ip_in_ranges(ip, a.denied_ip_ranges) THEN DeniedUserAcl
    ELSE IF a.ip_acl_default THEN AllowedDefault
    ELSE DeniedDefault

\* is_ip_allowed without the non-global gate
is_ip_allowed_no_gate(a, ip) ==
    IF is_ip_in_ranges(ip, a.allowed_ip_ranges) THEN AllowedUserAcl
    ELSE IF is_ip_in_ranges(ip, a.denied_ip_ranges) THEN DeniedUserAcl
    ELSE IF a.ip_acl_default THEN AllowedDefault
    ELSE DeniedDefault

\* is_ip_allowed whose gate looks at the private-use blocks alone
is_ip_allowed_private_gate(a, ip) ==
    IF is_private_ip(ip) /\ ~a.allow_non_global_ip_ranges THEN DeniedNotGlobal
    ELSE IF is_ip_in_ranges(ip, a.allowed_ip_ranges) THEN AllowedUserAcl
    ELSE IF is_ip_in_ranges(ip, a.denied_ip_ranges) THEN DeniedUserAcl
    ELSE IF a.ip_acl_default THEN AllowedDefault
    ELSE DeniedDefault

\* HttpAcl::is_ip_allowed
is_ip_allowed(a, ip) ==
    IF ~is_global_ip(ip) /\ ~a.allow_non_global_ip_ranges THEN DeniedNotGlobal
    ELSE IF is_ip_in_ranges(ip, a.allowed_ip_ranges) THEN AllowedUserAcl
    ELSE IF is_ip_in_ranges(ip, a.denied_ip_ranges) THEN DeniedUserAcl
    ELSE IF a.ip_acl_default THEN AllowedDefault
    ELSE DeniedDefault

\* is_header_allowed that looks at the header's name alone
is_header_allowed_any_value(a, header_name, header_value) ==
    IF header_name \in DOMAIN a.allowed_headers THEN AllowedUserAcl
    ELSE IF header_name \in DOMAIN a.denied_headers THEN DeniedUserAcl
    ELSE IF a.header_acl_default THEN AllowedDefault
    ELSE DeniedDefault

\* HttpAcl::is_header_allowed; the maps hold None or Some(value) per name
is_header_allowed(a, header_name, header_value) ==
    IF header_name \in DOMAIN a.allowed_headers
    THEN LET allowed_value == a.allowed_headers[header_name] IN
         IF allowed_value = Some(header_value) \/ allowed_value = None
         THEN AllowedUserAcl
         ELSE DeniedUserAcl
    ELSE IF header_name \in DOMAIN a.denied_headers
    THEN LET denied_value == a.denied_headers[header_name] IN
         IF denied_value = Some(header_value) \/ denied_value = None
         THEN DeniedUserAcl
         ELSE AllowedUserAcl
    ELSE IF a.header_acl_default THEN AllowedDefault
    ELSE DeniedDefault

\* is_url_path_allowed with the deny router consulted first
is_url_path_allowed_deny_first(a, url_path) ==
    IF RouterAt(a.denied_url_paths_router, url_path) THEN DeniedUserAcl
    ELSE IF RouterAt(a.allowed_url_paths_router, url_path) THEN AllowedUserAcl
    ELSE IF a.url_path_acl_default THEN AllowedDefault
    ELSE DeniedDefault

\* HttpAcl::is_url_path_allowed
is_url_path_allowed(a, url_path) ==
    IF RouterAt(a.allowed_url_paths_router, url_path) THEN AllowedUserAcl
    ELSE IF RouterAt(a.denied_url_paths_router, url_path) THEN DeniedUserAcl
    ELSE IF a.url_path_acl_default THEN AllowedDefault
    ELSE DeniedDefault

\* the closures a policy is built with: the one of tests::valid_acl and
\* two that ignore their arguments
ValidateFns == {"valid_acl", "deny_all", "allow_all"}

\* validate_fn(scheme, authority, Box::new(headers), body) for each of them
CallValidateFn(validate_fn, scheme, authority, headers, body) ==
    CASE validate_fn = "valid_acl" ->
             IF scheme = "http" THEN DeniedUserAcl
             ELSE IF authority.host.kind = "Ip" THEN DeniedUserAcl
             ELSE IF \E i \in 1..Len(headers) :
                         headers[i] = <<"<dangerous-header>", "<dangerous-value>">>
             THEN DeniedUserAcl
             ELSE IF body = Some("<dangerous-body>") THEN DeniedUserAcl
             ELSE AllowedDefault
      [] validate_fn = "deny_all" -> Denied("blocked")
      [] validate_fn = "allow_all" -> AllowedUserAcl

is_valid_scheme_first(a, scheme, authority, headers, body) ==
    IF is_denied(is_scheme_allowed(a, scheme)) THEN is_scheme_allowed(a, scheme)
    ELSE IF a.validate_fn # None
    THEN CallValidateFn(a.validate_fn.some, scheme, authority, headers, body)
    ELSE AllowedDefault

\* HttpAcl::is_valid
is_valid(a, scheme, authority, headers, body) ==
    IF a.validate_fn # None
    THEN CallValidateFn(a.validate_fn.some, scheme, authority, headers, body)
    ELSE AllowedDefault

\* HttpAcl::resolve_static_dns_mapping
resolve_static_dns_mapping(a, host) ==
    IF host \in DOMAIN a.static_dns_mapping THEN Some(a.static_dns_mapping[host])
    ELSE None

(***************************************************************************)
(* The earlier HttpAcl (src/src/acl.rs): single ports, IpNet ranges and a  *)
(* private-range toggle                                                    *)
(***************************************************************************)
IpNet(addr, prefix_len) == [addr |-> addr, prefix_len |-> prefix_len]

\* impl Default for HttpAcl
LegacyDefaultAcl ==
    [allow_http |-> TRUE,
     allow_https |-> TRUE,
     allowed_methods |-> <<Method("CONNECT"), Method("DELETE"), Method("GET"),
                           Method("HEAD"), Method("OPTIONS"), Method("PATCH"),
                           Method("POST"), Method("PUT"), Method("TRACE")>>,
     denied_methods |-> <<>>,
     allowed_hosts |-> <<>>,
     denied_hosts |-> <<>>,
     allowed_ports |-> <<80, 443>>,
     denied_ports |-> <<>>,
     allowed_ip_ranges |-> <<>>,
     denied_ip_ranges |-> <<>>,
     allow_private_ip_ranges |-> FALSE,
     method_acl_default |-> FALSE,
     host_acl_default |-> FALSE,
     port_acl_default |-> FALSE,
     ip_acl_default |-> FALSE]

\* Vec::contains
VecContains(v, x) == \E i \in 1..Len(v) : v[i] = x

\* HttpAcl::is_ip_in_ranges over IpNet
legacy_is_ip_in_ranges(ip, ranges) ==
    \E i \in 1..Len(ranges) : IpNetContains(ranges[i], ip)

\* HttpAcl::is_method_allowed
legacy_is_method_allowed(a, method) ==
    IF VecContains(a.allowed_methods, method) THEN AllowedUserAcl
    ELSE IF VecContains(a.denied_methods, method) THEN DeniedUserAcl
    ELSE IF a.method_acl_default THEN AllowedDefault
    ELSE DeniedDefault

\* the earlier is_ip_allowed without the allow-range override of the
\* non-global denial
legacy_is_ip_allowed_no_override(a, ip) ==
    IF (~is_global_ip(ip) \/ is_loopback(ip)) /\ ~is_private_ip(ip)
    THEN DeniedNotGlobal
    ELSE IF legacy_is_ip_in_ranges(ip, a.allowed_ip_ranges) THEN AllowedUserAcl
    ELSE IF legacy_is_ip_in_ranges(ip, a.denied_ip_ranges) THEN DeniedUserAcl
    ELSE IF is_private_ip(ip) /\ ~a.allow_private_ip_ranges THEN DeniedPrivateRange
    ELSE IF a.ip_acl_default THEN AllowedDefault
    ELSE DeniedDefault

\* HttpAcl::is_ip_allowed
legacy_is_ip_allowed(a, ip) ==
    IF (~is_global_ip(ip) \/ is_loopback(ip)) /\ ~is_private_ip(ip)
    THEN IF legacy_is_ip_in_ranges(ip, a.allowed_ip_ranges)
         THEN AllowedUserAcl
         ELSE DeniedNotGlobal
    ELSE IF legacy_is_ip_in_ranges(ip, a.allowed_ip_ranges) THEN AllowedUserAcl
    ELSE IF legacy_is_ip_in_ranges(ip, a.denied_ip_ranges) THEN DeniedUserAcl
    ELSE IF is_private_ip(ip) /\ ~a.allow_private_ip_ranges THEN DeniedPrivateRange
    ELSE IF a.ip_acl_default THEN AllowedDefault
    ELSE DeniedDefault

(***************************************************************************)
(* Authority::parse (src/http-acl/src/utils/authority.rs).  The text of an *)
(* authority is [host, port]: the labels before the first ':' and the      *)
(* characters after it ("" when there is no ':').                          *)
(***************************************************************************)
\* the decimal numerals the model reads, with their values
Dec ==
    [t \in {"0", "1", "5", "9", "10", "34", "93", "113", "184", "203", "216"} |->
        CASE t = "0" -> 0 [] t = "1" -> 1 [] t = "5" -> 5 [] t = "9" -> 9
          [] t = "10" -> 10 [] t = "34" -> 34 [] t = "93" -> 93
          [] t = "113" -> 113 [] t = "184" -> 184 [] t = "203" -> 203
          [] t = "216" -> 216]

\* str::parse::<u16> of a port
PortDec ==
    [t \in {"80", "443", "8080"} |->
        CASE t = "80" -> 80 [] t = "443" -> 443 [] t = "8080" -> 8080]

AuthorityText(labels, port) == [host |-> labels, port |-> port]

HostIp(ip) == [kind |-> "Ip", v |-> ip]
HostDomain(domain) == [kind |-> "Domain", v |-> domain]
AuthorityOk(host, port) == [ok |-> TRUE, host |-> host, port |-> port]
InvalidHost == [ok |-> FALSE, host |-> None, port |-> 0]

\* str::parse::<Ipv4Addr>: exactly four decimal octets
IsIpv4Literal(labels) == Len(labels) = 4 /\ \A i \in 1..4 : labels[i] \in DOMAIN Dec
Ipv4Of(labels) == [i \in 1..4 |-> Dec[labels[i]]]

\* url::Host::parse of a host without ':' : a host whose last label is a
\* number is an IPv4 address of one to four parts, the last part filling
\* the low-order octets; any other non-empty host is a domain
UrlHostIsIpv4(labels) ==
    /\ Len(labels) \in 1..4
    /\ \A i \in 1..Len(labels) : labels[i] \in DOMAIN Dec
UrlHostIpv4Of(labels) ==
    [i \in 1..4 |->
        IF i < Len(labels) THEN Dec[labels[i]]
        ELSE IF i = 4 THEN Dec[labels[Len(labels)]]
        ELSE 0]
UrlHostParseOk(labels) ==
    /\ labels # <<>>
    /\ \A i \in 1..Len(labels) : labels[i] # ""
    /\ labels[Len(labels)] \in DOMAIN Dec => UrlHostIsIpv4(labels)

\* Authority::parse
AuthorityParse(text) ==
    IF text.port # "" /\ IsIpv4Literal(text.host) /\ text.port \in DOMAIN PortDec
    THEN AuthorityOk(HostIp(Ipv4Of(text.host)), PortDec[text.port])
    ELSE IF text.port = "" /\ IsIpv4Literal(text.host)
    THEN AuthorityOk(HostIp(Ipv4Of(text.host)), 0)
    ELSE IF text.port = "" /\ UrlHostParseOk(text.host)
    THEN IF UrlHostIsIpv4(text.host)
         THEN AuthorityOk(HostIp(UrlHostIpv4Of(text.host)), 0)
         ELSE AuthorityOk(HostDomain(text.host), 0)
    ELSE IF text.port \in DOMAIN PortDec /\ UrlHostParseOk(text.host)
    THEN AuthorityOk(HostDomain(text.host), PortDec[text.port])
    ELSE InvalidHost

(***************************************************************************)
(* HttpAclMiddleware::handle and HttpAclDnsResolver::resolve               *)
(* (src/http-acl-reqwest/src/lib.rs)                                       *)
(***************************************************************************)

\* A request: its URL's scheme, host (None when the URL has none), explicit
\* port (None or Some) and path, and its method.
Request(scheme, verb, host, port, path) ==
    [scheme |-> scheme, verb |-> verb, host |-> host, port |-> port, path |-> path]

\* Url::port_or_known_default
port_or_known_default(r) ==
    IF r.port # None THEN r.port
    ELSE IF r.scheme \in {"http", "ws"} THEN Some(80)
    ELSE IF r.scheme \in {"https", "wss"} THEN Some(443)
    ELSE IF r.scheme = "ftp" THEN Some(21)
    ELSE None

Forwarded == [kind |-> "forwarded", dim |-> "", cls |-> None]
HandleErr(dim, cls) == [kind |-> "err", dim |-> dim, cls |-> cls]

\* handle with the path checked before the port
handle_path_before_port(a, r) ==
    LET scheme_match == is_scheme_allowed(a, r.scheme)
        method_match == is_method_allowed(a, r.verb)
    IN
    IF is_denied(scheme_match) THEN HandleErr("scheme", scheme_match)
    ELSE IF is_denied(method_match) THEN HandleErr("method", method_match)
    ELSE IF r.host = None THEN HandleErr("missing host", None)
    ELSE
    LET authority == AuthorityParse(AuthorityText(r.host, "")) IN
    IF ~authority.ok THEN HandleErr("invalid host", None)
    ELSE
    LET is_ip == authority.host.kind = "Ip"
        host_match == IF is_ip THEN is_ip_allowed(a, authority.host.v)
                      ELSE is_host_allowed(a, authority.host.v)
        port == port_or_known_default(r)
        path_match == is_url_path_allowed(a, r.path)
    IN
    IF is_denied(host_match)
    THEN HandleErr(IF is_ip THEN "ip" ELSE "host", host_match)
    ELSE IF is_denied(path_match) THEN HandleErr("path", path_match)
    ELSE IF port # None /\ is_denied(is_port_allowed(a, port.some))
    THEN HandleErr("port", is_port_allowed(a, port.some))
    ELSE Forwarded

\* handle that also resolves a domain and IP-checks what it resolves to
handle_resolving(a, r) ==
    LET scheme_match == is_scheme_allowed(a, r.scheme)
        method_match == is_method_allowed(a, r.verb)
    IN
    IF is_denied(scheme_match) THEN HandleErr("scheme", scheme_match)
    ELSE IF is_denied(method_match) THEN HandleErr("method", method_match)
    ELSE IF r.host = None THEN HandleErr("missing host", None)
    ELSE
    LET authority == AuthorityParse(AuthorityText(r.host, "")) IN
    IF ~authority.ok THEN HandleErr("invalid host", None)
    ELSE
    LET is_ip == authority.host.kind = "Ip"
        host_match == IF is_ip THEN is_ip_allowed(a, authority.host.v)
                      ELSE is_host_allowed(a, authority.host.v)
        port == port_or_known_default(r)
        path_match == is_url_path_allowed(a, r.path)
    IN
    IF is_denied(host_match)
    THEN HandleErr(IF is_ip THEN "ip" ELSE "host", host_match)
    ELSE IF ~is_ip /\ dns.ok
              /\ \E i \in 1..Len(dns.addrs) : is_denied(is_ip_allowed(a, dns.addrs[i].ip))
    THEN HandleErr("ip", DeniedUserAcl)
    ELSE IF port # None /\ is_denied(is_port_allowed(a, port.some))
    THEN HandleErr("port", is_port_allowed(a, port.some))
    ELSE IF is_denied(path_match) THEN HandleErr("path", path_match)
    ELSE Forwarded

\* HttpAclMiddleware::handle: Forwarded stands for next.run(req, extensions)
handle(a, r) ==
    LET scheme_match == is_scheme_allowed(a, r.scheme)
        method_match == is_method_allowed(a, r.verb)
    IN
    IF is_denied(scheme_match) THEN HandleErr("scheme", scheme_match)
    ELSE IF is_denied(method_match) THEN HandleErr("method", method_match)
    ELSE IF r.host = None THEN HandleErr("missing host", None)
    ELSE
    LET authority == AuthorityParse(AuthorityText(r.host, "")) IN
    IF ~authority.ok THEN HandleErr("invalid host", None)
    ELSE
    LET is_ip == authority.host.kind = "Ip"
        host_match == IF is_ip THEN is_ip_allowed(a, authority.host.v)
                      ELSE is_host_allowed(a, authority.host.v)
        port == port_or_known_default(r)
        path_match == is_url_path_allowed(a, r.path)
    IN
    IF is_denied(host_match)
    THEN HandleErr(IF is_ip THEN "ip" ELSE "host", host_match)
    ELSE IF port # None /\ is_denied(is_port_allowed(a, port.some))
    THEN HandleErr("port", is_port_allowed(a, port.some))
    ELSE IF is_denied(path_match) THEN HandleErr("path", path_match)
    ELSE Forwarded

\* What a resolver returns: an error, or the socket addresses in order.
SocketAddr(ip, port) == [ip |-> ip, port |-> port]
ResolveOk(addrs) == [ok |-> TRUE, addrs |-> addrs, err |-> ""]
ResolveErr(err) == [ok |-> FALSE, addrs |-> <<>>, err |-> err]

\* the outcome of one call of the wrapper: what it returns and how many
\* times it invoked the delegate
Resolving(res, calls) == [res |-> res, calls |-> calls]

\* resolve that filters on the port alone
resolve_port_only(a, name, answer) ==
    IF is_denied(is_host_allowed(a, name))
    THEN Resolving(ResolveErr("Host denied by ACL"), 0)
    ELSE IF answer.ok
    THEN Resolving(ResolveOk(SelectSeq(answer.addrs,
             LAMBDA addr : is_allowed(is_port_allowed(a, addr.port)))), 1)
    ELSE Resolving(answer, 1)

\* resolve that keeps an address when either check passes
resolve_either(a, name, answer) ==
    IF is_denied(is_host_allowed(a, name))
    THEN Resolving(ResolveErr("Host denied by ACL"), 0)
    ELSE IF answer.ok
    THEN Resolving(ResolveOk(SelectSeq(answer.addrs,
             LAMBDA addr : \/ is_allowed(is_ip_allowed(a, addr.ip))
                           \/ is_allowed(is_port_allowed(a, addr.port)))), 1)
    ELSE Resolving(answer, 1)

\* resolve that asks the delegate before it looks at the host
resolve_delegate_first(a, name, answer) ==
    IF is_denied(is_host_allowed(a, name))
    THEN Resolving(ResolveErr("Host denied by ACL"), 1)
    ELSE IF answer.ok
    THEN Resolving(ResolveOk(SelectSeq(answer.addrs,
             LAMBDA addr : /\ is_allowed(is_ip_allowed(a, addr.ip))
                           /\ is_allowed(is_port_allowed(a, addr.port)))), 1)
    ELSE Resolving(answer, 1)

\* HttpAclDnsResolver::resolve; answer is what the delegate returns if asked
resolve(a, name, answer) ==
    IF is_denied(is_host_allowed(a, name))
    THEN Resolving(ResolveErr("Host denied by ACL"), 0)
    ELSE IF answer.ok
    THEN Resolving(ResolveOk(SelectSeq(answer.addrs,
             LAMBDA addr : /\ is_allowed(is_ip_allowed(a, addr.ip))
                           /\ is_allowed(is_port_allowed(a, addr.port)))), 1)
    ELSE Resolving(answer, 1)

(***************************************************************************)
(* HttpAclBuilder (src/http-acl/src/acl.rs) and the helpers of utils.rs.   *)
(* A Vec is a sequence, a HashMap a function.  A URL path or template is   *)
(* the sequence of its segments as written: "/a/{id}" is <<"a", "{id}">>.  *)
(* A Result is Ok(value) or Err(error, self), self being the builder as    *)
(* the failed call leaves it when it is dropped.                           *)
(***************************************************************************)
Ok(v) == [ok |-> TRUE, err |-> "", v |-> v]
Err(e, self) == [ok |-> FALSE, err |-> e, v |-> self]

\* the least element of a non-empty set of indices
First(S) == CHOOSE i \in S : \A j \in S : i <= j

\* utils::has_unique_elements
has_unique_elements(v) == \A i, j \in 1..Len(v) : v[i] = v[j] => i = j

\* sort_by on the start of the ranges (a stable sort), for u16 and IpAddr
sorted_by_start_u16(ranges) ==
    LET rank(i) == Cardinality({j \in 1..Len(ranges) :
                        \/ ranges[j].start < ranges[i].start
                        \/ ranges[j].start = ranges[i].start /\ j < i}) + 1
    IN  [k \in 1..Len(ranges) |-> ranges[CHOOSE i \in 1..Len(ranges) : rank(i) = k]]

sorted_by_start_ip(ranges) ==
    LET lt(a, b) == IpLe(a, b) /\ a # b
        rank(i) == Cardinality({j \in 1..Len(ranges) :
                        \/ lt(ranges[j].start, ranges[i].start)
                        \/ ranges[j].start = ranges[i].start /\ j < i}) + 1
    IN  [k \in 1..Len(ranges) |-> ranges[CHOOSE i \in 1..Len(ranges) : rank(i) = k]]

has_overlapping_ranges_u16_touching(ranges) ==
    LET sorted == sorted_by_start_u16(ranges) IN
    \E k \in 1..(Len(sorted) - 1) : sorted[k].end = sorted[k + 1].start

\* has_overlapping_ranges that compares the adjacent pairs without sorting
has_overlapping_ranges_u16_unsorted(ranges) ==
    \E k \in 1..(Len(ranges) - 1) : ranges[k].end >= ranges[k + 1].start

\* utils::has_overlapping_ranges::<u16>
has_overlapping_ranges_u16(ranges) ==
    LET sorted == sorted_by_start_u16(ranges) IN
    \E k \in 1..(Len(sorted) - 1) : sorted[k].end >= sorted[k + 1].start

\* utils::has_overlapping_ranges::<IpAddr>
has_overlapping_ranges_ip(ranges) ==
    LET sorted == sorted_by_start_ip(ranges) IN
    \E k \in 1..(Len(sorted) - 1) : IpLe(sorted[k + 1].start, sorted[k].end)

range_overlaps_u16_start_inside(ranges, range, self_index) ==
    \E i \in 1..Len(ranges) :
        /\ self_index # Some(i)
        /\ ranges[i].start <= range.start
        /\ ranges[i].end >= range.start

\* utils::range_overlaps::<u16>; self_index is None or Some(index)
range_overlaps_u16(ranges, range, self_index) ==
    \E i \in 1..Len(ranges) :
        /\ self_index # Some(i)
        /\ ranges[i].start <= range.end
        /\ ranges[i].end >= range.start

\* utils::range_overlaps::<IpAddr>
range_overlaps_ip(ranges, range, self_index) ==
    \E i \in 1..Len(ranges) :
        /\ self_index # Some(i)
        /\ IpLe(ranges[i].start, range.end)
        /\ IpLe(range.start, ranges[i].end)

\* IntoIpRange::into_range for a RangeInclusive<IpAddr> or a pair
into_range(ip_range) ==
    IF IpLe(ip_range.start, ip_range.end) THEN Some(ip_range) ELSE None

\* utils::authority::is_valid_host, for a host text without ':' (a text
\* with one is tried as a SocketAddr first)
is_valid_host(host) == IsIpv4Literal(host) \/ UrlHostParseOk(host)

\* matchit's reading of a template: "{name}" is a named parameter,
\* "{*name}" a catch-all, anything else a literal segment
ParseSegment(s) ==
    IF s \in {"{id}", "{key}"} THEN Param
    ELSE IF s = "{*path}" THEN CatchAll
    ELSE Lit(s)

ParseTemplate(url_path) == [i \in 1..Len(url_path) |-> ParseSegment(url_path[i])]

\* Router::insert: Err on a catch-all that is not last and on a route that
\* is already there; the result is [ok, router]
RouterInsert(router, url_path) ==
    LET t == ParseTemplate(url_path) IN
    IF \/ \E i \in 1..(Len(t) - 1) : t[i].kind = "catchall"
       \/ t \in router
    THEN [ok |-> FALSE, router |-> router]
    ELSE [ok |-> TRUE, router |-> router \cup {t}]

\* Router::insert of each path in turn, stopping at the first Err
RECURSIVE RouterInsertAll(_, _)
RouterInsertAll(router, url_paths) ==
    IF url_paths = <<>> THEN [ok |-> TRUE, router |-> router]
    ELSE LET r == RouterInsert(router, Head(url_paths)) IN
         IF r.ok THEN RouterInsertAll(r.router, Tail(url_paths)) ELSE r

\* HttpAclBuilder::new
NewBuilder ==
    [allow_http |-> TRUE,
     allow_https |-> TRUE,
     allowed_methods |-> <<Method("CONNECT"), Method("DELETE"), Method("GET"),
                           Method("HEAD"), Method("OPTIONS"), Method("PATCH"),
                           Method("POST"), Method("PUT"), Method("TRACE")>>,
     denied_methods |-> <<>>,
     allowed_hosts |-> <<>>,
     denied_hosts |-> <<>>,
     allowed_port_ranges |-> <<PortRange(80, 80), PortRange(443, 443)>>,
     denied_port_ranges |-> <<>>,
     allowed_ip_ranges |-> <<>>,
     denied_ip_ranges |-> <<>>,
     static_dns_mapping |-> <<>>,
     allowed_headers |-> <<>>,
     denied_headers |-> <<>>,
     allowed_url_paths |-> <<>>,
     allowed_url_paths_router |-> {},
     denied_url_paths |-> <<>>,
     denied_url_paths_router |-> {},
     allow_non_global_ip_ranges |-> FALSE,
     method_acl_default |-> FALSE,
     host_acl_default |-> FALSE,
     port_acl_default |-> FALSE,
     ip_acl_default |-> FALSE,
     header_acl_default |-> TRUE,
     url_path_acl_default |-> TRUE]

add_allowed_method_own_list_first(self, method) ==
    IF VecContains(self.allowed_methods, method) THEN Err("AlreadyAllowedMethod", self)
    ELSE IF VecContains(self.denied_methods, method)
    THEN Err("AlreadyDeniedMethod", self)
    ELSE Ok([self EXCEPT !.allowed_methods = Append(@, method)])

\* HttpAclBuilder::add_allowed_method
add_allowed_method(self, method) ==
    IF VecContains(self.denied_methods, method) THEN Err("AlreadyDeniedMethod", self)
    ELSE IF VecContains(self.allowed_methods, method)
    THEN Err("AlreadyAllowedMethod", self)
    ELSE Ok([self EXCEPT !.allowed_methods = Append(@, method)])

\* HttpAclBuilder::add_denied_method
add_denied_method(self, method) ==
    IF VecContains(self.allowed_methods, method) THEN Err("AlreadyAllowedMethod", self)
    ELSE IF VecContains(self.denied_methods, method)
    THEN Err("AlreadyDeniedMethod", self)
    ELSE Ok([self EXCEPT !.denied_methods = Append(@, method)])

\* HttpAclBuilder::allowed_methods
allowed_methods(self, methods) ==
    IF \E i \in 1..Len(methods) : VecContains(self.denied_methods, methods[i])
    THEN Err("AlreadyDeniedMethod", self)
    ELSE Ok([self EXCEPT !.allowed_methods = methods])

\* HttpAclBuilder::denied_methods
denied_methods(self, methods) ==
    IF \E i \in 1..Len(methods) : VecContains(self.allowed_methods, methods[i])
    THEN Err("AlreadyAllowedMethod", self)
    ELSE Ok([self EXCEPT !.denied_methods = methods])

\* HttpAclBuilder::add_allowed_host
add_allowed_host(self, host) ==
    IF is_valid_host(host)
    THEN IF VecContains(self.denied_hosts, host) THEN Err("AlreadyDeniedHost", self)
         ELSE IF VecContains(self.allowed_hosts, host) THEN Err("AlreadyAllowedHost", self)
         ELSE Ok([self EXCEPT !.allowed_hosts = Append(@, host)])
    ELSE Err("InvalidEntity", self)

\* HttpAclBuilder::add_denied_host
add_denied_host(self, host) ==
    IF is_valid_host(host)
    THEN IF VecContains(self.allowed_hosts, host) THEN Err("AlreadyAllowedHost", self)
         ELSE IF VecContains(self.denied_hosts, host) THEN Err("AlreadyDeniedHost", self)
         ELSE Ok([self EXCEPT !.denied_hosts = Append(@, host)])
    ELSE Err("InvalidEntity", self)

\* HttpAclBuilder::allowed_hosts: the first host that is invalid or denied
\* decides the error
allowed_hosts(self, hosts) ==
    LET bad == {i \in 1..Len(hosts) :
                   ~is_valid_host(hosts[i]) \/ VecContains(self.denied_hosts, hosts[i])}
    IN  IF bad = {} THEN Ok([self EXCEPT !.allowed_hosts = hosts])
        ELSE IF is_valid_host(hosts[First(bad)]) THEN Err("AlreadyDeniedHost", self)
        ELSE Err("InvalidEntity", self)

\* HttpAclBuilder::denied_hosts
denied_hosts(self, hosts) ==
    LET bad == {i \in 1..Len(hosts) :
                   ~is_valid_host(hosts[i]) \/ VecContains(self.allowed_hosts, hosts[i])}
    IN  IF bad = {} THEN Ok([self EXCEPT !.denied_hosts = hosts])
        ELSE IF is_valid_host(hosts[First(bad)]) THEN Err("AlreadyAllowedHost", self)
        ELSE Err("InvalidEntity", self)

\* HttpAclBuilder::add_allowed_port_range
add_allowed_port_range(self, port_range) ==
    IF VecContains(self.denied_port_ranges, port_range)
    THEN Err("AlreadyDeniedPortRange", self)
    ELSE IF VecContains(self.allowed_port_ranges, port_range)
    THEN Err("AlreadyAllowedPortRange", self)
    ELSE IF \/ range_overlaps_u16(self.allowed_port_ranges, port_range, None)
            \/ range_overlaps_u16(self.denied_port_ranges, port_range, None)
    THEN Err("Overlaps", self)
    ELSE Ok([self EXCEPT !.allowed_port_ranges = Append(@, port_range)])

\* HttpAclBuilder::add_denied_port_range
add_denied_port_range(self, port_range) ==
    IF VecContains(self.allowed_port_ranges, port_range)
    THEN Err("AlreadyAllowedPortRange", self)
    ELSE IF VecContains(self.denied_port_ranges, port_range)
    THEN Err("AlreadyDeniedPortRange", self)
    ELSE IF \/ range_overlaps_u16(self.allowed_port_ranges, port_range, None)
            \/ range_overlaps_u16(self.denied_port_ranges, port_range, None)
    THEN Err("Overlaps", self)
    ELSE Ok([self EXCEPT !.denied_port_ranges = Append(@, port_range)])

\* HttpAclBuilder::allowed_port_ranges: the first range that is denied or
\* overlaps decides the error
allowed_port_ranges(self, port_ranges) ==
    LET denied(i) == VecContains(self.denied_port_ranges, port_ranges[i])
        overlaps(i) == \/ range_overlaps_u16(port_ranges, port_ranges[i], Some(i))
                       \/ range_overlaps_u16(self.denied_port_ranges, port_ranges[i], None)
        bad == {i \in 1..Len(port_ranges) : denied(i) \/ overlaps(i)}
    IN  IF bad = {} THEN Ok([self EXCEPT !.allowed_port_ranges = port_ranges])
        ELSE IF denied(First(bad)) THEN Err("AlreadyDeniedPortRange", self)
        ELSE Err("Overlaps", self)

\* HttpAclBuilder::denied_port_ranges
denied_port_ranges(self, port_ranges) ==
    IF \E i \in 1..Len(port_ranges) :
           VecContains(self.allowed_port_ranges, port_ranges[i])
    THEN Err("AlreadyAllowedPortRange", self)
    ELSE Ok([self EXCEPT !.denied_port_ranges = port_ranges])

\* HttpAclBuilder::add_allowed_ip_range
add_allowed_ip_range(self, ip_range) ==
    IF into_range(ip_range) = None THEN Err("InvalidEntity", self)
    ELSE IF VecContains(self.denied_ip_ranges, ip_range)
    THEN Err("AlreadyDeniedIpRange", self)
    ELSE IF VecContains(self.allowed_ip_ranges, ip_range)
    THEN Err("AlreadyAllowedIpRange", self)
    ELSE IF \/ range_overlaps_ip(self.allowed_ip_ranges, ip_range, None)
            \/ range_overlaps_ip(self.denied_ip_ranges, ip_range, None)
    THEN Err("Overlaps", self)
    ELSE Ok([self EXCEPT !.allowed_ip_ranges = Append(@, ip_range)])

\* HttpAclBuilder::add_denied_ip_range
add_denied_ip_range(self, ip_range) ==
    IF into_range(ip_range) = None THEN Err("InvalidEntity", self)
    ELSE IF VecContains(self.allowed_ip_ranges, ip_range)
    THEN Err("AlreadyAllowedIpRange", self)
    ELSE IF VecContains(self.denied_ip_ranges, ip_range)
    THEN Err("AlreadyDeniedIpRange", self)
    ELSE IF \/ range_overlaps_ip(self.allowed_ip_ranges, ip_range, None)
            \/ range_overlaps_ip(self.denied_ip_ranges, ip_range, None)
    THEN Err("Overlaps", self)
    ELSE Ok([self EXCEPT !.denied_ip_ranges = Append(@, ip_range)])

\* HttpAclBuilder::allowed_ip_ranges
allowed_ip_ranges(self, ip_ranges) ==
    LET denied(i) == VecContains(self.denied_ip_ranges, ip_ranges[i])
        overlaps(i) == \/ range_overlaps_ip(ip_ranges, ip_ranges[i], Some(i))
                       \/ range_overlaps_ip(self.denied_ip_ranges, ip_ranges[i], None)
        bad == {i \in 1..Len(ip_ranges) : denied(i) \/ overlaps(i)}
    IN  IF \E i \in 1..Len(ip_ranges) : into_range(ip_ranges[i]) = None
        THEN Err("InvalidEntity", self)
        ELSE IF bad = {} THEN Ok([self EXCEPT !.allowed_ip_ranges = ip_ranges])
        ELSE IF denied(First(bad)) THEN Err("AlreadyDeniedIpRange", self)
        ELSE Err("Overlaps", self)

\* HttpAclBuilder::denied_ip_ranges
denied_ip_ranges(self, ip_ranges) ==
    LET allowed(i) == VecContains(self.allowed_ip_ranges, ip_ranges[i])
        overlaps(i) == \/ range_overlaps_ip(ip_ranges, ip_ranges[i], Some(i))
                       \/ range_overlaps_ip(self.allowed_ip_ranges, ip_ranges[i], None)
        bad == {i \in 1..Len(ip_ranges) : allowed(i) \/ overlaps(i)}
    IN  IF \E i \in 1..Len(ip_ranges) : into_range(ip_ranges[i]) = None
        THEN Err("InvalidEntity", self)
        ELSE IF bad = {} THEN Ok([self EXCEPT !.denied_ip_ranges = ip_ranges])
        ELSE IF allowed(First(bad)) THEN Err("AlreadyAllowedIpRange", self)
        ELSE Err("Overlaps", self)

\* HashMap::insert
MapInsert(map, key, value) ==
    [k \in DOMAIN map \cup {key} |-> IF k = key THEN value ELSE map[k]]

\* HttpAclBuilder::add_allowed_header; value is None or Some(text)
add_allowed_header(self, header, value) ==
    IF header \in DOMAIN self.denied_headers THEN Err("AlreadyDeniedHeader", self)
    ELSE IF header \notin DOMAIN self.allowed_headers
    THEN Ok([self EXCEPT !.allowed_headers = MapInsert(@, header, value)])
    ELSE Err("AlreadyAllowedHeader", self)

\* HttpAclBuilder::add_denied_header
add_denied_header(self, header, value) ==
    IF header \in DOMAIN self.allowed_headers THEN Err("AlreadyAllowedHeader", self)
    ELSE IF header \notin DOMAIN self.denied_headers
    THEN Ok([self EXCEPT !.denied_headers = MapInsert(@, header, value)])
    ELSE Err("AlreadyDeniedHeader", self)

\* HttpAclBuilder::allowed_headers
allowed_headers(self, headers) ==
    IF \E header \in DOMAIN headers : header \in DOMAIN self.denied_headers
    THEN Err("AlreadyDeniedHeader", self)
    ELSE Ok([self EXCEPT !.allowed_headers = headers])

\* HttpAclBuilder::denied_headers
denied_headers(self, headers) ==
    IF \E header \in DOMAIN headers : header \in DOMAIN self.allowed_headers
    THEN Err("AlreadyAllowedHeader", self)
    ELSE Ok([self EXCEPT !.denied_headers = headers])

\* HttpAclBuilder::add_allowed_url_path: the path is pushed before the
\* router takes it
add_allowed_url_path(self, url_path) ==
    IF \/ VecContains(self.denied_url_paths, url_path)
       \/ RouterAt(self.denied_url_paths_router, url_path)
    THEN Err("AlreadyDeniedUrlPath", self)
    ELSE IF \/ VecContains(self.allowed_url_paths, url_path)
            \/ RouterAt(self.allowed_url_paths_router, url_path)
    THEN Err("AlreadyAllowedUrlPath", self)
    ELSE LET pushed == [self EXCEPT !.allowed_url_paths = Append(@, url_path)]
             r == RouterInsert(self.allowed_url_paths_router, url_path)
         IN  IF r.ok THEN Ok([pushed EXCEPT !.allowed_url_paths_router = r.router])
             ELSE Err("InvalidEntity", pushed)

\* HttpAclBuilder::add_denied_url_path
add_denied_url_path(self, url_path) ==
    IF \/ VecContains(self.allowed_url_paths, url_path)
       \/ RouterAt(self.allowed_url_paths_router, url_path)
    THEN Err("AlreadyAllowedUrlPath", self)
    ELSE IF \/ VecContains(self.denied_url_paths, url_path)
            \/ RouterAt(self.denied_url_paths_router, url_path)
    THEN Err("AlreadyDeniedUrlPath", self)
    ELSE LET pushed == [self EXCEPT !.denied_url_paths = Append(@, url_path)]
             r == RouterInsert(self.denied_url_paths_router, url_path)
         IN  IF r.ok THEN Ok([pushed EXCEPT !.denied_url_paths_router = r.router])
             ELSE Err("InvalidEntity", pushed)

\* HttpAclBuilder::allowed_url_paths: the router is rebuilt from empty
\* before the list is replaced
allowed_url_paths(self, url_paths) ==
    IF \E i \in 1..Len(url_paths) :
           \/ VecContains(self.denied_url_paths, url_paths[i])
           \/ RouterAt(self.denied_url_paths_router, url_paths[i])
    THEN Err("AlreadyDeniedUrlPath", self)
    ELSE LET r == RouterInsertAll({}, url_paths) IN
         IF r.ok
         THEN Ok([self EXCEPT !.allowed_url_paths_router = r.router,
                              !.allowed_url_paths = url_paths])
         ELSE Err("InvalidEntity", [self EXCEPT !.allowed_url_paths_router = r.router])

\* HttpAclBuilder::denied_url_paths
denied_url_paths(self, url_paths) ==
    IF \E i \in 1..Len(url_paths) :
           \/ VecContains(self.allowed_url_paths, url_paths[i])
           \/ RouterAt(self.allowed_url_paths_router, url_paths[i])
    THEN Err("AlreadyAllowedUrlPath", self)
    ELSE LET r == RouterInsertAll({}, url_paths) IN
         IF r.ok
         THEN Ok([self EXCEPT !.denied_url_paths_router = r.router,
                              !.denied_url_paths = url_paths])
         ELSE Err("InvalidEntity", [self EXCEPT !.denied_url_paths_router = r.router])

\* Vec::retain(|e| e != x)
Retain(v, x) == SelectSeq(v, LAMBDA e : e # x)

\* HashMap::remove
MapRemove(map, key) == [k \in DOMAIN map \ {key} |-> map[k]]

\* HttpAclBuilder::remove_allowed_method
remove_allowed_method(self, method) ==
    [self EXCEPT !.allowed_methods = Retain(@, method)]

\* HttpAclBuilder::remove_denied_method
remove_denied_method(self, method) ==
    [self EXCEPT !.denied_methods = Retain(@, method)]

\* HttpAclBuilder::remove_allowed_host
remove_allowed_host(self, host) ==
    [self EXCEPT !.allowed_hosts = Retain(@, host)]

\* HttpAclBuilder::remove_denied_host
remove_denied_host(self, host) ==
    [self EXCEPT !.denied_hosts = Retain(@, host)]

\* HttpAclBuilder::remove_allowed_port_range
remove_allowed_port_range(self, port_range) ==
    [self EXCEPT !.allowed_port_ranges = Retain(@, port_range)]

\* HttpAclBuilder::remove_denied_port_range
remove_denied_port_range(self, port_range) ==
    [self EXCEPT !.denied_port_ranges = Retain(@, port_range)]

\* HttpAclBuilder::remove_allowed_ip_range, which returns a Result
remove_allowed_ip_range(self, ip_range) ==
    IF into_range(ip_range) = None THEN Err("InvalidEntity", self)
    ELSE Ok([self EXCEPT !.allowed_ip_ranges = Retain(@, ip_range)])

\* HttpAclBuilder::remove_denied_ip_range
remove_denied_ip_range(self, ip_range) ==
    IF into_range(ip_range) = None THEN Err("InvalidEntity", self)
    ELSE Ok([self EXCEPT !.denied_ip_ranges = Retain(@, ip_range)])

\* HttpAclBuilder::remove_allowed_header
remove_allowed_header(self, header) ==
    [self EXCEPT !.allowed_headers = MapRemove(@, header)]

\* HttpAclBuilder::remove_denied_header
remove_denied_header(self, header) ==
    [self EXCEPT !.denied_headers = MapRemove(@, header)]

remove_allowed_url_path_keep_router(self, url_path) ==
    Ok([self EXCEPT !.allowed_url_paths = Retain(@, url_path)])

\* HttpAclBuilder::remove_allowed_url_path: the router is rebuilt from the
\* paths that are left, and insert(..).expect(..) panics on an Err; the
\* result is Ok(builder) or Err("panic", ..)
remove_allowed_url_path(self, url_path) ==
    LET retained == [self EXCEPT !.allowed_url_paths = Retain(@, url_path)]
        r == RouterInsertAll({}, retained.allowed_url_paths)
    IN  IF r.ok THEN Ok([retained EXCEPT !.allowed_url_paths_router = r.router])
        ELSE Err("panic", retained)

\* HttpAclBuilder::remove_denied_url_path
remove_denied_url_path(self, url_path) ==
    LET retained == [self EXCEPT !.denied_url_paths = Retain(@, url_path)]
        r == RouterInsertAll({}, retained.denied_url_paths)
    IN  IF r.ok THEN Ok([retained EXCEPT !.denied_url_paths_router = r.router])
        ELSE Err("panic", retained)

\* the elements of a Vec, as into_iter().collect() into a HashSet gives
Elements(v) == {v[i] : i \in 1..Len(v)}

\* HttpAclBuilder::build_full with no validate_fn, which is build
build_full(self) ==
    [allow_http |-> self.allow_http,
     allow_https |-> self.allow_https,
     allowed_methods |-> Elements(self.allowed_methods),
     denied_methods |-> Elements(self.denied_methods),
     allowed_hosts |-> Elements(self.allowed_hosts),
     denied_hosts |-> Elements(self.denied_hosts),
     allowed_port_ranges |-> self.allowed_port_ranges,
     denied_port_ranges |-> self.denied_port_ranges,
     allowed_ip_ranges |-> self.allowed_ip_ranges,
     denied_ip_ranges |-> self.denied_ip_ranges,
     static_dns_mapping |-> self.static_dns_mapping,
     allowed_headers |-> self.allowed_headers,
     denied_headers |-> self.denied_headers,
     allowed_url_paths_router |-> self.allowed_url_paths_router,
     denied_url_paths_router |-> self.denied_url_paths_router,
     validate_fn |-> None,
     allow_non_global_ip_ranges |-> self.allow_non_global_ip_ranges,
     method_acl_default |-> self.method_acl_default,
     host_acl_default |-> self.host_acl_default,
     port_acl_default |-> self.port_acl_default,
     ip_acl_default |-> self.ip_acl_default,
     header_acl_default |-> self.header_acl_default,
     url_path_acl_default |-> self.url_path_acl_default]

\* one of the two loops of try_build_full over the URL paths of a list:
\* a path found in the other list or matched by the other router is an
\* error, a path its own router does not match yet is inserted; the result
\* is the error ("" if none) and the router
RECURSIVE try_build_url_paths(_, _, _, _)
try_build_url_paths(url_paths, router, other_url_paths, other_router) ==
    IF url_paths = <<>> THEN [err |-> "", router |-> router]
    ELSE LET url_path == Head(url_paths) IN
         IF VecContains(other_url_paths, url_path) \/ RouterAt(other_router, url_path)
         THEN [err |-> "BothAllowedAndDenied", router |-> router]
         ELSE IF ~RouterAt(router, url_path)
         THEN LET r == RouterInsert(router, url_path) IN
              IF r.ok
              THEN try_build_url_paths(Tail(url_paths), r.router,
                                       other_url_paths, other_router)
              ELSE [err |-> "InvalidEntity", router |-> router]
         ELSE try_build_url_paths(Tail(url_paths), router,
                                  other_url_paths, other_router)

\* the error of a loop of try_build_full over hosts: the first host that
\* is invalid or also in the other list decides it ("" if none)
try_build_hosts(hosts, other_hosts) ==
    LET bad == {i \in 1..Len(hosts) :
                   ~is_valid_host(hosts[i]) \/ VecContains(other_hosts, hosts[i])}
    IN  IF bad = {} THEN ""
        ELSE IF ~is_valid_host(hosts[First(bad)]) THEN "InvalidEntity"
        ELSE "BothAllowedAndDenied"

\* some element of one Vec is in the other
Shared(v, w) == \E i \in 1..Len(v) : VecContains(w, v[i])

\* HttpAclBuilder::try_build_full with no validate_fn, which is try_build
try_build_full(self) ==
    IF ~has_unique_elements(self.allowed_methods) THEN Err("NotUnique", self)
    ELSE IF Shared(self.allowed_methods, self.denied_methods)
    THEN Err("BothAllowedAndDenied", self)
    ELSE IF ~has_unique_elements(self.denied_methods) THEN Err("NotUnique", self)
    ELSE IF Shared(self.denied_methods, self.allowed_methods)
    THEN Err("BothAllowedAndDenied", self)
    ELSE IF ~has_unique_elements(self.allowed_hosts) THEN Err("NotUnique", self)
    ELSE IF try_build_hosts(self.allowed_hosts, self.denied_hosts) # ""
    THEN Err(try_build_hosts(self.allowed_hosts, self.denied_hosts), self)
    ELSE IF ~has_unique_elements(self.denied_hosts) THEN Err("NotUnique", self)
    ELSE IF try_build_hosts(self.denied_hosts, self.allowed_hosts) # ""
    THEN Err(try_build_hosts(self.denied_hosts, self.allowed_hosts), self)
    ELSE IF ~has_unique_elements(self.allowed_port_ranges) THEN Err("NotUnique", self)
    ELSE IF has_overlapping_ranges_u16(self.allowed_port_ranges)
    THEN Err("Overlaps", self)
    ELSE IF Shared(self.allowed_port_ranges, self.denied_port_ranges)
    THEN Err("BothAllowedAndDenied", self)
    ELSE IF ~has_unique_elements(self.denied_port_ranges) THEN Err("NotUnique", self)
    ELSE IF has_overlapping_ranges_u16(self.denied_port_ranges)
    THEN Err("Overlaps", self)
    ELSE IF Shared(self.denied_port_ranges, self.allowed_port_ranges)
    THEN Err("BothAllowedAndDenied", self)
    ELSE IF ~has_unique_elements(self.allowed_ip_ranges) THEN Err("NotUnique", self)
    ELSE IF has_overlapping_ranges_ip(self.allowed_ip_ranges) THEN Err("Overlaps", self)
    ELSE IF Shared(self.allowed_ip_ranges, self.denied_ip_ranges)
    THEN Err("BothAllowedAndDenied", self)
    ELSE IF ~has_unique_elements(self.denied_ip_ranges) THEN Err("NotUnique", self)
    ELSE IF has_overlapping_ranges_ip(self.denied_ip_ranges) THEN Err("Overlaps", self)
    ELSE IF Shared(self.denied_ip_ranges, self.allowed_ip_ranges)
    THEN Err("BothAllowedAndDenied", self)
    ELSE IF \E host \in DOMAIN self.static_dns_mapping : ~is_valid_host(host)
    THEN Err("InvalidEntity", self)
    ELSE IF ~has_unique_elements(self.allowed_url_paths) THEN Err("NotUnique", self)
    ELSE
    LET allowed == try_build_url_paths(self.allowed_url_paths,
                       self.allowed_url_paths_router,
                       self.denied_url_paths, self.denied_url_paths_router)
        self1 == [self EXCEPT !.allowed_url_paths_router = allowed.router]
    IN
    IF allowed.err # "" THEN Err(allowed.err, self1)
    ELSE IF ~has_unique_elements(self.denied_url_paths) THEN Err("NotUnique", self1)
    ELSE
    LET denied == try_build_url_paths(self.denied_url_paths,
                      self.denied_url_paths_router,
                      self.allowed_url_paths, allowed.router)
        self2 == [self1 EXCEPT !.denied_url_paths_router = denied.router]
    IN
    IF denied.err # "" THEN Err(denied.err, self2)
    ELSE Ok(build_full(self2))

\* the two fields that #[serde(skip)] keeps out of the serialized form
SkippedFields == {"allowed_url_paths_router", "denied_url_paths_router"}

\* #[derive(Serialize)] for HttpAclBuilder: every field but the skipped ones
serialize(self) == [f \in DOMAIN self \ SkippedFields |-> self[f]]

\* #[derive(Deserialize)] for HttpAclBuilder: a skipped field is
\* Router::default(), which holds no route
deserialize(doc) ==
    [f \in DOMAIN doc \cup SkippedFields |->
        IF f \in SkippedFields THEN {} ELSE doc[f]]

(***************************************************************************)
(* Bounds and input universes                                              *)
(***************************************************************************)
\* longest rule list of a drawn policy
MaxLen == 2

\* every sequence over S of length at most n
SeqUpTo(S, n) == UNION {[1..k -> S] : k \in 0..n}

\* addresses in, at the ends of, just outside and far from the ranges below
TestIps ==
    {<<1, 1, 1, 1>>, <<1, 0, 0, 0>>, <<1, 255, 255, 255>>, <<2, 0, 0, 0>>,
     <<0, 255, 255, 255>>, <<9, 9, 9, 9>>, <<8, 255, 255, 255>>,
     <<10, 0, 0, 5>>, <<192, 168, 1, 1>>, <<127, 0, 0, 1>>,
     <<203, 0, 113, 12>>, <<93, 184, 216, 34>>}

TestIpRanges ==
    {IpRange(<<1, 0, 0, 0>>, <<1, 255, 255, 255>>),
     IpRange(<<9, 0, 0, 0>>, <<9, 255, 255, 255>>),
     IpRange(<<10, 0, 0, 0>>, <<10, 255, 255, 255>>)}

TestIpNets ==
    {IpNet(<<1, 0, 0, 0>>, 8), IpNet(<<192, 168, 0, 0>>, 16),
     IpNet(<<203, 0, 113, 0>>, 24)}

TestVerbs == {"GET", "POST", "BREW"}

TestMethods == {MethodFrom(v) : v \in TestVerbs}

TestHosts ==
    {<<"example", "com">>, <<"sub", "example", "com">>, <<"com">>}

TestPorts == {79, 80, 81, 443, 8439, 8440, 8442, 8443, 8444}

TestPortRanges ==
    {PortRange(80, 80), PortRange(443, 443), PortRange(8440, 8442),
     PortRange(8441, 8443)}

(***************************************************************************)
(* Policy queries.  A policy built by the unvalidated build() from any     *)
(* builder state (HttpAclBuilder is Deserialize) can hold any lists, so    *)
(* the policies are drawn from all lists over the universes above.         *)
(***************************************************************************)
NoQuery == [fn |-> "none", arg |-> None]

clientVars == <<pc, req, hres, dns, rname, rans, rres, delegated, conn>>

ClientIdle ==
    /\ pc = "idle"
    /\ req = None
    /\ hres = None
    /\ dns = None
    /\ rname = None
    /\ rans = None
    /\ rres = None
    /\ delegated = 0
    /\ conn = {}

IpPolicies ==
    {[DefaultAcl EXCEPT !.allowed_ip_ranges = al, !.denied_ip_ranges = dl,
                        !.allow_non_global_ip_ranges = ng, !.ip_acl_default = d] :
        al \in SeqUpTo(TestIpRanges, MaxLen), dl \in SeqUpTo(TestIpRanges, MaxLen),
        ng \in BOOLEAN, d \in BOOLEAN}

LegacyIpPolicies ==
    {[LegacyDefaultAcl EXCEPT !.allowed_ip_ranges = al, !.denied_ip_ranges = dl,
                              !.allow_private_ip_ranges = pr, !.ip_acl_default = d] :
        al \in SeqUpTo(TestIpNets, MaxLen), dl \in SeqUpTo(TestIpNets, MaxLen),
        pr \in BOOLEAN, d \in BOOLEAN}

MethodPolicies ==
    {[DefaultAcl EXCEPT !.allowed_methods = al, !.denied_methods = dl,
                        !.method_acl_default = d] :
        al \in SUBSET TestMethods, dl \in SUBSET TestMethods, d \in BOOLEAN}

LegacyMethodPolicies ==
    {[LegacyDefaultAcl EXCEPT !.allowed_methods = al, !.denied_methods = dl,
                              !.method_acl_default = d] :
        al \in SeqUpTo(TestMethods, MaxLen), dl \in SeqUpTo(TestMethods, MaxLen),
        d \in BOOLEAN}

HostPolicies ==
    {[DefaultAcl EXCEPT !.allowed_hosts = al, !.denied_hosts = dl,
                        !.host_acl_default = d] :
        al \in SUBSET TestHosts, dl \in SUBSET TestHosts, d \in BOOLEAN}

PortPolicies ==
    {[DefaultAcl EXCEPT !.allowed_port_ranges = al, !.denied_port_ranges = dl,
                        !.port_acl_default = d] :
        al \in SeqUpTo(TestPortRanges, MaxLen), dl \in SeqUpTo(TestPortRanges, MaxLen),
        d \in BOOLEAN}

QueryIp(ip) ==
    /\ q' = [fn |-> "is_ip_allowed", arg |-> ip]
    /\ out' = is_ip_allowed(acl, ip)
    /\ UNCHANGED <<builder, acl, lacl, clientVars>>

LegacyQueryIp(ip) ==
    /\ q' = [fn |-> "legacy_is_ip_allowed", arg |-> ip]
    /\ out' = legacy_is_ip_allowed(lacl, ip)
    /\ UNCHANGED <<builder, acl, lacl, clientVars>>

QueryMethod(verb) ==
    /\ q' = [fn |-> "is_method_allowed", arg |-> verb]
    /\ out' = is_method_allowed(acl, verb)
    /\ UNCHANGED <<builder, acl, lacl, clientVars>>

LegacyQueryMethod(method) ==
    /\ q' = [fn |-> "legacy_is_method_allowed", arg |-> method]
    /\ out' = legacy_is_method_allowed(lacl, method)
    /\ UNCHANGED <<builder, acl, lacl, clientVars>>

QueryHostRecording(host) ==
    /\ q' = [fn |-> "is_host_allowed", arg |-> host]
    /\ out' = is_host_allowed(acl, host)
    /\ acl' = [acl EXCEPT !.denied_hosts = @ \cup {host}]
    /\ UNCHANGED <<builder, lacl, clientVars>>

QueryHost(host) ==
    /\ q' = [fn |-> "is_host_allowed", arg |-> host]
    /\ out' = is_host_allowed(acl, host)
    /\ UNCHANGED <<builder, acl, lacl, clientVars>>

QueryPort(port) ==
    /\ q' = [fn |-> "is_port_allowed", arg |-> port]
    /\ out' = is_port_allowed(acl, port)
    /\ UNCHANGED <<builder, acl, lacl, clientVars>>

QueryInit ==
    /\ builder = None
    /\ q = NoQuery
    /\ out = None
    /\ ClientIdle

\* is_ip_allowed of the current HttpAcl
InitIp == acl \in IpPolicies /\ lacl = LegacyDefaultAcl /\ QueryInit
NextIp == \E ip \in TestIps : QueryIp(ip)
SpecIp == InitIp /\ [][NextIp]_vars

\* is_ip_allowed of the earlier HttpAcl
InitLegacyIp == acl = DefaultAcl /\ lacl \in LegacyIpPolicies /\ QueryInit
NextLegacyIp == \E ip \in TestIps : LegacyQueryIp(ip)
SpecLegacyIp == InitLegacyIp /\ [][NextLegacyIp]_vars

\* is_method_allowed of both
InitMethod ==
    /\ \/ acl \in MethodPolicies /\ lacl = LegacyDefaultAcl
       \/ acl = DefaultAcl /\ lacl \in LegacyMethodPolicies
    /\ QueryInit
NextMethod ==
    \/ \E verb \in TestVerbs : QueryMethod(verb)
    \/ \E method \in TestMethods : LegacyQueryMethod(method)
SpecMethod == InitMethod /\ [][NextMethod]_vars

\* is_host_allowed and is_port_allowed
InitHostPort ==
    /\ acl \in HostPolicies \cup PortPolicies
    /\ lacl = LegacyDefaultAcl
    /\ QueryInit
NextHostPort ==
    \/ \E host \in TestHosts : QueryHost(host)
    \/ \E port \in TestPorts : QueryPort(port)
SpecHostPort == InitHostPort /\ [][NextHostPort]_vars

\* header names and values of tests::header_acl, and a name in no map
TestHeaderNames == {"X-Allowed", "X-Denied", "X-Other"}
TestHeaderValues == {"true", "false"}

\* every map from some of the names S to None or Some(value)
MapsOver(S, V) == UNION {[D -> {None} \cup {Some(v) : v \in V}] : D \in SUBSET S}

\* templates of tests::url_path_acl
TestTemplates ==
    {<<Lit("allowed")>>, <<Lit("allowed"), Param>>,
     <<Lit("denied")>>, <<Lit("denied"), CatchAll>>}

TestPaths ==
    {<<"allowed">>, <<"allowed", "42">>, <<"allowed", "42", "z">>,
     <<"denied">>, <<"denied", "x">>, <<"denied", "x", "y">>, <<"other">>}

HeaderPolicies ==
    {[DefaultAcl EXCEPT !.allowed_headers = al, !.denied_headers = dl,
                        !.header_acl_default = d] :
        al \in MapsOver({"X-Allowed", "X-Denied"}, {"true"}),
        dl \in MapsOver({"X-Allowed", "X-Denied"}, {"true"}),
        d \in BOOLEAN}

PathPolicies ==
    {[DefaultAcl EXCEPT !.allowed_url_paths_router = al,
                        !.denied_url_paths_router = dl,
                        !.url_path_acl_default = d] :
        al \in SUBSET TestTemplates, dl \in SUBSET TestTemplates, d \in BOOLEAN}

QueryHeader(name, value) ==
    /\ q' = [fn |-> "is_header_allowed", arg |-> <<name, value>>]
    /\ out' = is_header_allowed(acl, name, value)
    /\ UNCHANGED <<builder, acl, lacl, clientVars>>

QueryPath(path) ==
    /\ q' = [fn |-> "is_url_path_allowed", arg |-> path]
    /\ out' = is_url_path_allowed(acl, path)
    /\ UNCHANGED <<builder, acl, lacl, clientVars>>

\* is_header_allowed and is_url_path_allowed
InitHeaderPath ==
    /\ acl \in HeaderPolicies \cup PathPolicies
    /\ lacl = LegacyDefaultAcl
    /\ QueryInit
NextHeaderPath ==
    \/ \E name \in TestHeaderNames, value \in TestHeaderValues : QueryHeader(name, value)
    \/ \E path \in TestPaths : QueryPath(path)
SpecHeaderPath == InitHeaderPath /\ [][NextHeaderPath]_vars

\* the six dimensions that have an allow-list, a deny-list and a default
Dimensions == {"method", "host", "port", "ip", "header", "path"}

\* a policy with rules in every dimension except those of empty, and the
\* given default flags (flags[D]) and non-global toggle
PolicyWith(empty, flags, ng) ==
    LET rules(D, list, none) == IF D \in empty THEN none ELSE list IN
    [DefaultAcl EXCEPT
        !.allowed_methods = rules("method", {Method("GET")}, {}),
        !.denied_methods = rules("method", {Method("POST")}, {}),
        !.allowed_hosts = rules("host", {<<"example", "com">>}, {}),
        !.denied_hosts = rules("host", {<<"com">>}, {}),
        !.allowed_port_ranges = rules("port", <<PortRange(80, 80)>>, <<>>),
        !.denied_port_ranges = rules("port", <<PortRange(8440, 8442)>>, <<>>),
        !.allowed_ip_ranges =
            rules("ip", <<IpRange(<<1, 0, 0, 0>>, <<1, 255, 255, 255>>)>>, <<>>),
        !.denied_ip_ranges =
            rules("ip", <<IpRange(<<9, 0, 0, 0>>, <<9, 255, 255, 255>>)>>, <<>>),
        !.allowed_headers = rules("header", [n \in {"X-Allowed"} |-> Some("true")], <<>>),
        !.denied_headers = rules("header", [n \in {"X-Denied"} |-> None], <<>>),
        !.allowed_url_paths_router = rules("path", {<<Lit("allowed")>>}, {}),
        !.denied_url_paths_router = rules("path", {<<Lit("denied")>>}, {}),
        !.allow_non_global_ip_ranges = ng,
        !.method_acl_default = flags["method"],
        !.host_acl_default = flags["host"],
        !.port_acl_default = flags["port"],
        !.ip_acl_default = flags["ip"],
        !.header_acl_default = flags["header"],
        !.url_path_acl_default = flags["path"]]

\* policies with no rule at all or with no rule in one dimension only
DefaultPolicies ==
    {PolicyWith(empty, flags, ng) :
        empty \in {Dimensions} \cup {{D} : D \in Dimensions},
        flags \in [Dimensions -> BOOLEAN], ng \in BOOLEAN}

\* all six queries, of a policy that falls back on its defaults
InitDefault ==
    /\ acl \in DefaultPolicies
    /\ lacl = LegacyDefaultAcl
    /\ QueryInit
NextDefault ==
    \/ \E verb \in TestVerbs : QueryMethod(verb)
    \/ \E host \in TestHosts : QueryHost(host)
    \/ \E port \in TestPorts : QueryPort(port)
    \/ \E ip \in TestIps : QueryIp(ip)
    \/ \E name \in TestHeaderNames, value \in TestHeaderValues : QueryHeader(name, value)
    \/ \E path \in TestPaths : QueryPath(path)
SpecDefault == InitDefault /\ [][NextDefault]_vars

\* the policies of tests::private_ip_acl in both crates, each with its
\* toggle and its IP default either way and with at most one allowed range
TogglePolicies ==
    {[DefaultAcl EXCEPT !.allowed_ip_ranges = al,
                        !.allow_non_global_ip_ranges = ng, !.ip_acl_default = d] :
        al \in SeqUpTo({IpRange(<<1, 0, 0, 0>>, <<1, 255, 255, 255>>)}, 1),
        ng \in BOOLEAN, d \in BOOLEAN}

LegacyTogglePolicies ==
    {[LegacyDefaultAcl EXCEPT !.allowed_ip_ranges = al,
                              !.allow_private_ip_ranges = pr, !.ip_acl_default = d] :
        al \in SeqUpTo({IpNet(<<1, 0, 0, 0>>, 8)}, 1),
        pr \in BOOLEAN, d \in BOOLEAN}

InitToggle == acl \in TogglePolicies /\ lacl \in LegacyTogglePolicies /\ QueryInit
NextToggle ==
    \/ \E ip \in TestIps : QueryIp(ip)
    \/ \E ip \in TestIps : LegacyQueryIp(ip)
SpecToggle == InitToggle /\ [][NextToggle]_vars

\* the values of AclClassification in the current crate and in the legacy
\* one, Denied(String) with a few reasons
DeniedReasons ==
    {"", "blocked", "scheme", "method", "host", "port", "ip", "header", "path", "body"}

Classifications ==
    {AllowedUserAcl, AllowedDefault, DeniedUserAcl, DeniedDefault, DeniedNotGlobal}
        \cup {Denied(reason) : reason \in DeniedReasons}

LegacyClassifications == Classifications \cup {DeniedPrivateRange}

\* out.fn() for one of the two predicates of the enum; the legacy crate's
\* is_allowed is the same match as the current one
Apply(fn, values, result) ==
    /\ out \in values
    /\ q' = [fn |-> fn, arg |-> result]
    /\ UNCHANGED <<builder, acl, lacl, out, clientVars>>

InitClassification ==
    /\ builder = None
    /\ acl = DefaultAcl
    /\ lacl = LegacyDefaultAcl
    /\ q = NoQuery
    /\ out \in LegacyClassifications
    /\ ClientIdle

\* the two predicates in each crate, and the two ways the adapter uses
\* them: handle returns Err when is_denied, the resolver wrapper keeps an
\* address when is_allowed
NextClassification ==
    \/ Apply("is_allowed", Classifications, is_allowed(out))
    \/ Apply("is_denied", Classifications, is_denied(out))
    \/ Apply("legacy_is_allowed", LegacyClassifications, is_allowed(out))
    \/ Apply("legacy_is_denied", LegacyClassifications, legacy_is_denied(out))
    \/ Apply("handle_passes", Classifications, ~is_denied(out))
    \/ Apply("resolve_keeps", Classifications, is_allowed(out))
SpecClassification == InitClassification /\ [][NextClassification]_vars

\* lists of up to MaxRanges well-formed ranges (start <= end) over a few
\* ports, and over a few addresses
MaxRanges == 3

RangePorts == 1..4
RangeIps == {<<1, 0, 0, 0>>, <<1, 0, 0, 255>>, <<1, 0, 1, 0>>}

RangeListsU16 ==
    SeqUpTo({r \in [start : RangePorts, end : RangePorts] : r.start <= r.end}, MaxRanges)

RangeListsIp ==
    SeqUpTo({r \in [start : RangeIps, end : RangeIps] : IpLe(r.start, r.end)}, MaxRanges)

\* has_overlapping_ranges(&ranges) on the list drawn, for T = u16 or IpAddr
CallHasOverlappingRanges ==
    /\ q' = [q EXCEPT !.fn = "has_overlapping_ranges", !.self_index = None]
    /\ out' = IF q.T = "u16" THEN has_overlapping_ranges_u16(q.arg)
              ELSE has_overlapping_ranges_ip(q.arg)
    /\ UNCHANGED <<builder, acl, lacl, clientVars>>

\* range_overlaps(&ranges, &ranges[i], Some(i))
CallRangeOverlaps(i) ==
    /\ i \in 1..Len(q.arg)
    /\ q' = [q EXCEPT !.fn = "range_overlaps", !.self_index = Some(i)]
    /\ out' = IF q.T = "u16" THEN range_overlaps_u16(q.arg, q.arg[i], Some(i))
              ELSE range_overlaps_ip(q.arg, q.arg[i], Some(i))
    /\ UNCHANGED <<builder, acl, lacl, clientVars>>

InitRanges ==
    /\ builder = None
    /\ acl = DefaultAcl
    /\ lacl = LegacyDefaultAcl
    /\ \/ \E l \in RangeListsU16 :
              q = [fn |-> "none", arg |-> l, T |-> "u16", self_index |-> None]
       \/ \E l \in RangeListsIp :
              q = [fn |-> "none", arg |-> l, T |-> "IpAddr", self_index |-> None]
    /\ out = None
    /\ ClientIdle

NextRanges ==
    \/ CallHasOverlappingRanges
    \/ \E i \in 1..MaxRanges : CallRangeOverlaps(i)
SpecRanges == InitRanges /\ [][NextRanges]_vars

\* policies that differ in every dimension and in the closure they carry
ValidPolicies ==
    {[a EXCEPT !.validate_fn = f] :
        a \in {DefaultAcl,
               [DefaultAcl EXCEPT !.allow_http = FALSE, !.allow_https = FALSE],
               [DefaultAcl EXCEPT !.denied_hosts = {<<"example", "com">>},
                                  !.denied_methods = {Method("GET")},
                                  !.denied_port_ranges = <<PortRange(0, 65535)>>],
               [DefaultAcl EXCEPT !.denied_headers = [n \in {"<header>"} |-> None],
                                  !.header_acl_default = FALSE,
                                  !.url_path_acl_default = FALSE],
               [DefaultAcl EXCEPT !.allowed_hosts = {<<"example", "com">>},
                                  !.allowed_ip_ranges =
                                      <<IpRange(<<1, 1, 1, 1>>, <<1, 1, 1, 1>>)>>,
                                  !.ip_acl_default = TRUE,
                                  !.allow_non_global_ip_ranges = TRUE]},
        f \in {None} \cup {Some(g) : g \in ValidateFns}}

ValidSchemes == {"http", "https"}
\* "example.com".into() and "1.1.1.1".parse::<IpAddr>().unwrap().into()
ValidAuthorities ==
    {AuthorityOk(HostDomain(<<"example", "com">>), 0),
     AuthorityOk(HostIp(<<1, 1, 1, 1>>), 0)}
ValidHeaders ==
    {<<>>, <<<<"<header>", "<value>">>>>,
     <<<<"<header>", "<value>">>, <<"<dangerous-header>", "<dangerous-value>">>>>}
ValidBodies == {None, Some("body"), Some("<dangerous-body>")}

\* acl.is_valid(scheme, &authority, headers.into_iter(), body)
QueryValid(scheme, authority, headers, body) ==
    /\ q' = [fn |-> "is_valid", arg |-> <<scheme, authority, headers, body>>]
    /\ out' = is_valid(acl, scheme, authority, headers, body)
    /\ UNCHANGED <<builder, acl, lacl, clientVars>>

InitValid == acl \in ValidPolicies /\ lacl = LegacyDefaultAcl /\ QueryInit
NextValid ==
    \E scheme \in ValidSchemes, authority \in ValidAuthorities,
       headers \in ValidHeaders, body \in ValidBodies :
        QueryValid(scheme, authority, headers, body)
SpecValid == InitValid /\ [][NextValid]_vars

(***************************************************************************)
(* A builder session.  The builder starts as HttpAclBuilder::new() or as   *)
(* any deserialized value (HttpAclBuilder is Deserialize, its routers are  *)
(* skipped and start empty); each call consumes it and gives it back on    *)
(* Ok; build and try_build turn it into the policy, which is then queried. *)
(* A session works on the lists of one dimension, the others stay as new() *)
(* leaves them: no call reads or writes the lists of another dimension.    *)
(***************************************************************************)
BuilderMethods == {Method("GET"), Other("BREW")}

\* a valid host and one that url::Host::parse rejects
BuilderHosts == {<<"example", "com">>, <<"example", "1">>}

BuilderPortRanges == {PortRange(8440, 8442), PortRange(8441, 8443)}
\* a range apart from those, and one whose start is above its end
NewPortRanges == {PortRange(80, 80), PortRange(8442, 8441)}

BuilderIpRanges ==
    {IpRange(<<1, 0, 0, 0>>, <<1, 255, 255, 255>>),
     IpRange(<<1, 1, 1, 0>>, <<10, 0, 0, 5>>)}
\* a range apart from those, and one whose start is above its end
NewIpRanges ==
    {IpRange(<<93, 184, 216, 0>>, <<93, 184, 216, 255>>),
     IpRange(<<9, 9, 9, 9>>, <<1, 1, 1, 1>>)}

BuilderHeaderNames == {"X-Allowed", "X-Denied"}
BuilderHeaderValues == {None, Some("true")}
BuilderHeaderMaps == MapsOver(BuilderHeaderNames, {"true"})

BuilderUrlPaths == {<<"a", "b">>, <<"a", "{*path}">>}
\* a template that crosses the catch-all: both match /a/b
NewUrlPaths == {<<"{id}", "b">>}
\* a list whose first template matches the text of its second one
CrossingUrlPaths == <<<<"{id}", "{key}">>, <<"a", "{*path}">>>>

BuilderDnsMappings ==
    UNION {[D -> {SocketAddr(<<1, 1, 1, 1>>, 80)}] :
              D \in SUBSET {<<"example", "com">>, <<"example", "1">>}}

\* new() with the lists of one dimension replaced, as deserialization can
DeserializedBuilders ==
    {[NewBuilder EXCEPT !.allowed_methods = al, !.denied_methods = dl] :
        al \in SeqUpTo(BuilderMethods, MaxLen), dl \in SeqUpTo(BuilderMethods, MaxLen)}
    \cup
    {[NewBuilder EXCEPT !.allowed_hosts = al, !.denied_hosts = dl] :
        al \in SeqUpTo(BuilderHosts, MaxLen), dl \in SeqUpTo(BuilderHosts, MaxLen)}
    \cup
    {[NewBuilder EXCEPT !.allowed_port_ranges = al, !.denied_port_ranges = dl] :
        al \in SeqUpTo(BuilderPortRanges, MaxLen),
        dl \in SeqUpTo(BuilderPortRanges, MaxLen)}
    \cup
    {[NewBuilder EXCEPT !.allowed_ip_ranges = al, !.denied_ip_ranges = dl] :
        al \in SeqUpTo(BuilderIpRanges, MaxLen), dl \in SeqUpTo(BuilderIpRanges, MaxLen)}
    \cup
    {[NewBuilder EXCEPT !.allowed_headers = al, !.denied_headers = dl] :
        al \in BuilderHeaderMaps, dl \in BuilderHeaderMaps}
    \cup
    {[NewBuilder EXCEPT !.allowed_url_paths = al, !.denied_url_paths = dl] :
        al \in SeqUpTo(BuilderUrlPaths, MaxLen), dl \in SeqUpTo(BuilderUrlPaths, MaxLen)}
    \cup
    {[NewBuilder EXCEPT !.static_dns_mapping = m] : m \in BuilderDnsMappings}

\* the builder after a call that took it and did not give it back: which
\* call it was and the value that was moved into it
Consumed(by, self) == [consumed_by |-> by, moved |-> self]

IsBuilder(b) == DOMAIN b = DOMAIN NewBuilder

IsConsumed(b) == "consumed_by" \in DOMAIN b

\* the builder of the legacy crate, which has the fields of its HttpAcl
LegacyNewBuilder == LegacyDefaultAcl

IsLegacyBuilder(b) == DOMAIN b = DOMAIN LegacyNewBuilder

\* HttpAclBuilder::allowed_methods of the legacy crate
legacy_allowed_methods(self, methods) ==
    LET bad == {i \in 1..Len(methods) :
                   \/ VecContains(self.denied_methods, methods[i])
                   \/ VecContains(self.allowed_methods, methods[i])}
    IN  IF bad = {} THEN Ok([self EXCEPT !.allowed_methods = methods])
        ELSE IF VecContains(self.denied_methods, methods[First(bad)])
        THEN Err("AlreadyDenied", self)
        ELSE Err("AlreadyAllowed", self)

\* the dimensions whose rules are not those of new()
Configured(b) ==
    {d \in {"method", "host", "port", "ip", "header", "path", "dns"} :
        CASE d = "method" -> <<b.allowed_methods, b.denied_methods>>
                              # <<NewBuilder.allowed_methods, NewBuilder.denied_methods>>
          [] d = "host" -> <<b.allowed_hosts, b.denied_hosts>>
                              # <<NewBuilder.allowed_hosts, NewBuilder.denied_hosts>>
          [] d = "port" -> <<b.allowed_port_ranges, b.denied_port_ranges>>
                              # <<NewBuilder.allowed_port_ranges,
                                  NewBuilder.denied_port_ranges>>
          [] d = "ip" -> <<b.allowed_ip_ranges, b.denied_ip_ranges>>
                              # <<NewBuilder.allowed_ip_ranges, NewBuilder.denied_ip_ranges>>
          [] d = "header" -> <<b.allowed_headers, b.denied_headers>>
                              # <<NewBuilder.allowed_headers, NewBuilder.denied_headers>>
          [] d = "path" -> <<b.allowed_url_paths, b.denied_url_paths>>
                              # <<NewBuilder.allowed_url_paths, NewBuilder.denied_url_paths>>
          [] d = "dns" -> b.static_dns_mapping # NewBuilder.static_dns_mapping}

\* the scheme flags, the toggle and the default flags of a builder
Flags ==
    {"allow_http", "allow_https", "allow_non_global_ip_ranges", "method_acl_default",
     "host_acl_default", "port_acl_default", "ip_acl_default", "header_acl_default",
     "url_path_acl_default"}

\* the flags that are not as new() sets them
FlagsSet(b) == {f \in Flags : b[f] # NewBuilder[f]}

\* the session stays in one dimension, or sets one flag, and every list
\* stays within MaxLen entries
WithinBound(b) ==
    /\ Cardinality(Configured(b)) + Cardinality(FlagsSet(b)) <= 1
    /\ Len(b.allowed_methods) <= MaxLen \/ b.allowed_methods = NewBuilder.allowed_methods
    /\ Len(b.denied_methods) <= MaxLen
    /\ Len(b.allowed_hosts) <= MaxLen
    /\ Len(b.denied_hosts) <= MaxLen
    /\ Len(b.allowed_port_ranges) <= MaxLen
    /\ Len(b.denied_port_ranges) <= MaxLen
    /\ Len(b.allowed_ip_ranges) <= MaxLen
    /\ Len(b.denied_ip_ranges) <= MaxLen
    /\ Len(b.allowed_url_paths) <= MaxLen
    /\ Len(b.denied_url_paths) <= MaxLen

\* builder = builder.fn(arg)?: the call and its Result are recorded in q
\* and out; on Err the builder is gone
Call(fn, arg, result) ==
    /\ IsBuilder(builder)
    /\ q' = [fn |-> fn, arg |-> arg]
    /\ out' = result
    /\ out'.ok => WithinBound(out'.v)
    /\ builder' = IF out'.ok THEN out'.v ELSE Consumed(fn, builder)
    /\ UNCHANGED <<acl, lacl, clientVars>>

\* builder = builder.allowed_methods(methods)? on the legacy builder
LegacySetAllowedMethods(methods) ==
    /\ IsLegacyBuilder(builder)
    /\ q' = [fn |-> "legacy_allowed_methods", arg |-> methods]
    /\ out' = legacy_allowed_methods(builder, methods)
    /\ builder' = IF out'.ok THEN out'.v ELSE Consumed("legacy_allowed_methods", builder)
    /\ UNCHANGED <<acl, lacl, clientVars>>

\* let acl = builder.build()
Build ==
    /\ IsBuilder(builder)
    /\ q' = [fn |-> "build", arg |-> None]
    /\ acl' = build_full(builder)
    /\ out' = Ok(acl')
    /\ builder' = Consumed("build", builder)
    /\ UNCHANGED <<lacl, clientVars>>

\* let acl = builder.try_build()?
TryBuild ==
    /\ IsBuilder(builder)
    /\ q' = [fn |-> "try_build", arg |-> None]
    /\ out' = try_build_full(builder)
    /\ acl' = IF out'.ok THEN out'.v ELSE None
    /\ builder' = Consumed("try_build", builder)
    /\ UNCHANGED <<lacl, clientVars>>

\* builder = from_str(&to_string(&builder)?)?: the builder that was
\* serialized is kept in q
SerdeRoundTrip ==
    /\ IsBuilder(builder)
    /\ q' = [fn |-> "serde", arg |-> builder]
    /\ out' = Ok(deserialize(serialize(builder)))
    /\ builder' = out'.v
    /\ UNCHANGED <<acl, lacl, clientVars>>

InitBuilder ==
    /\ builder \in {NewBuilder, LegacyNewBuilder} \cup DeserializedBuilders
    /\ acl = None
    /\ lacl = LegacyDefaultAcl
    /\ q = NoQuery
    /\ out = None
    /\ ClientIdle

\* what the built policy is asked
BuiltVerbs == {"GET", "POST", "BREW"}
BuiltHosts == {<<"example", "com">>, <<"com">>}
BuiltPorts == {80, 8440, 8441}
BuiltIps == {<<1, 1, 1, 1>>, <<9, 9, 9, 9>>, <<10, 0, 0, 5>>}
BuiltPaths == {<<"a", "b">>, <<"a", "c">>, <<"c", "b">>}

\* the policy is asked in the dimension that the session configured
Asked(d) == acl # None /\ Configured(builder.moved) \subseteq {d}

QueryBuilt ==
    \/ \E verb \in BuiltVerbs : Asked("method") /\ QueryMethod(verb)
    \/ \E host \in BuiltHosts : Asked("host") /\ QueryHost(host)
    \/ \E port \in BuiltPorts : Asked("port") /\ QueryPort(port)
    \/ \E ip \in BuiltIps : Asked("ip") /\ QueryIp(ip)
    \/ \E name \in BuilderHeaderNames, value \in TestHeaderValues :
           Asked("header") /\ QueryHeader(name, value)
    \/ \E path \in BuiltPaths : Asked("path") /\ QueryPath(path)

\* the mutators that add entries: the add_* and the bulk setters of the six
\* dimensions; a mutator that returns Self is recorded as Ok(Self)
Mutate ==
    \/ \E method \in BuilderMethods :
           Call("add_allowed_method", method, add_allowed_method(builder, method))
    \/ \E method \in BuilderMethods :
           Call("add_denied_method", method, add_denied_method(builder, method))
    \/ \E host \in BuilderHosts :
           Call("add_allowed_host", host, add_allowed_host(builder, host))
    \/ \E host \in BuilderHosts :
           Call("add_denied_host", host, add_denied_host(builder, host))
    \/ \E port_range \in BuilderPortRanges \cup NewPortRanges :
           Call("add_allowed_port_range", port_range, add_allowed_port_range(builder, port_range))
    \/ \E port_range \in BuilderPortRanges \cup NewPortRanges :
           Call("add_denied_port_range", port_range, add_denied_port_range(builder, port_range))
    \/ \E ip_range \in BuilderIpRanges \cup NewIpRanges :
           Call("add_allowed_ip_range", ip_range, add_allowed_ip_range(builder, ip_range))
    \/ \E ip_range \in BuilderIpRanges \cup NewIpRanges :
           Call("add_denied_ip_range", ip_range, add_denied_ip_range(builder, ip_range))
    \/ \E url_path \in BuilderUrlPaths \cup NewUrlPaths :
           Call("add_allowed_url_path", url_path, add_allowed_url_path(builder, url_path))
    \/ \E url_path \in BuilderUrlPaths \cup NewUrlPaths :
           Call("add_denied_url_path", url_path, add_denied_url_path(builder, url_path))
    \/ \E header \in BuilderHeaderNames, value \in BuilderHeaderValues :
           Call("add_allowed_header", <<header, value>>, add_allowed_header(builder, header, value))
    \/ \E header \in BuilderHeaderNames, value \in BuilderHeaderValues :
           Call("add_denied_header", <<header, value>>, add_denied_header(builder, header, value))
    \/ \E methods \in SeqUpTo(BuilderMethods, MaxLen) :
           Call("allowed_methods", methods, allowed_methods(builder, methods))
    \/ \E methods \in SeqUpTo(BuilderMethods, MaxLen) :
           Call("denied_methods", methods, denied_methods(builder, methods))
    \/ \E hosts \in SeqUpTo(BuilderHosts, MaxLen) :
           Call("allowed_hosts", hosts, allowed_hosts(builder, hosts))
    \/ \E hosts \in SeqUpTo(BuilderHosts, MaxLen) :
           Call("denied_hosts", hosts, denied_hosts(builder, hosts))
    \/ \E port_ranges \in SeqUpTo(BuilderPortRanges, MaxLen) :
           Call("allowed_port_ranges", port_ranges, allowed_port_ranges(builder, port_ranges))
    \/ \E port_ranges \in SeqUpTo(BuilderPortRanges, MaxLen) :
           Call("denied_port_ranges", port_ranges, denied_port_ranges(builder, port_ranges))
    \/ \E ip_ranges \in SeqUpTo(BuilderIpRanges, MaxLen) :
           Call("allowed_ip_ranges", ip_ranges, allowed_ip_ranges(builder, ip_ranges))
    \/ \E ip_ranges \in SeqUpTo(BuilderIpRanges, MaxLen) :
           Call("denied_ip_ranges", ip_ranges, denied_ip_ranges(builder, ip_ranges))
    \/ \E url_paths \in SeqUpTo(BuilderUrlPaths, MaxLen) \cup {CrossingUrlPaths} :
           Call("allowed_url_paths", url_paths, allowed_url_paths(builder, url_paths))
    \/ \E url_paths \in SeqUpTo(BuilderUrlPaths, MaxLen) \cup {CrossingUrlPaths} :
           Call("denied_url_paths", url_paths, denied_url_paths(builder, url_paths))
    \/ \E headers \in BuilderHeaderMaps :
           Call("allowed_headers", headers, allowed_headers(builder, headers))
    \/ \E headers \in BuilderHeaderMaps :
           Call("denied_headers", headers, denied_headers(builder, headers))

\* the mutators that take entries away or set a flag: remove_*, clear_*, the
\* scheme flags, the toggle and the default flags
Unset ==
    \/ \E method \in BuilderMethods :
           Call("remove_allowed_method", method, Ok(remove_allowed_method(builder, method)))
    \/ \E method \in BuilderMethods :
           Call("remove_denied_method", method, Ok(remove_denied_method(builder, method)))
    \/ \E host \in BuilderHosts :
           Call("remove_allowed_host", host, Ok(remove_allowed_host(builder, host)))
    \/ \E host \in BuilderHosts :
           Call("remove_denied_host", host, Ok(remove_denied_host(builder, host)))
    \/ \E port_range \in BuilderPortRanges \cup NewPortRanges :
           Call("remove_allowed_port_range", port_range, Ok(remove_allowed_port_range(builder, port_range)))
    \/ \E port_range \in BuilderPortRanges \cup NewPortRanges :
           Call("remove_denied_port_range", port_range, Ok(remove_denied_port_range(builder, port_range)))
    \/ \E ip_range \in BuilderIpRanges \cup NewIpRanges :
           Call("remove_allowed_ip_range", ip_range, remove_allowed_ip_range(builder, ip_range))
    \/ \E ip_range \in BuilderIpRanges \cup NewIpRanges :
           Call("remove_denied_ip_range", ip_range, remove_denied_ip_range(builder, ip_range))
    \/ \E header \in BuilderHeaderNames :
           Call("remove_allowed_header", header, Ok(remove_allowed_header(builder, header)))
    \/ \E header \in BuilderHeaderNames :
           Call("remove_denied_header", header, Ok(remove_denied_header(builder, header)))
    \/ \E url_path \in BuilderUrlPaths \cup NewUrlPaths :
           Call("remove_allowed_url_path", url_path, remove_allowed_url_path(builder, url_path))
    \/ \E url_path \in BuilderUrlPaths \cup NewUrlPaths :
           Call("remove_denied_url_path", url_path, remove_denied_url_path(builder, url_path))
    \/ Call("clear_allowed_methods", None, Ok([builder EXCEPT !.allowed_methods = <<>>]))
    \/ Call("clear_allowed_hosts", None, Ok([builder EXCEPT !.allowed_hosts = <<>>]))
    \/ Call("clear_allowed_port_ranges", None, Ok([builder EXCEPT !.allowed_port_ranges = <<>>]))
    \/ Call("clear_allowed_ip_ranges", None, Ok([builder EXCEPT !.allowed_ip_ranges = <<>>]))
    \/ Call("clear_allowed_headers", None, Ok([builder EXCEPT !.allowed_headers = <<>>]))
    \/ Call("clear_allowed_url_paths", None,
            Ok([builder EXCEPT !.allowed_url_paths = <<>>, !.allowed_url_paths_router = {}]))
    \/ Call("clear_denied_methods", None, Ok([builder EXCEPT !.denied_methods = <<>>]))
    \/ Call("clear_denied_hosts", None, Ok([builder EXCEPT !.denied_hosts = <<>>]))
    \/ Call("clear_denied_port_ranges", None, Ok([builder EXCEPT !.denied_port_ranges = <<>>]))
    \/ Call("clear_denied_ip_ranges", None, Ok([builder EXCEPT !.denied_ip_ranges = <<>>]))
    \/ Call("clear_denied_headers", None, Ok([builder EXCEPT !.denied_headers = <<>>]))
    \/ Call("clear_denied_url_paths", None,
            Ok([builder EXCEPT !.denied_url_paths = <<>>, !.denied_url_paths_router = {}]))
    \/ \E allow \in BOOLEAN : Call("http", allow, Ok([builder EXCEPT !.allow_http = allow]))
    \/ \E allow \in BOOLEAN : Call("https", allow, Ok([builder EXCEPT !.allow_https = allow]))
    \/ \E allow \in BOOLEAN : Call("non_global_ip_ranges", allow, Ok([builder EXCEPT !.allow_non_global_ip_ranges = allow]))
    \/ \E allow \in BOOLEAN : Call("method_acl_default", allow, Ok([builder EXCEPT !.method_acl_default = allow]))
    \/ \E allow \in BOOLEAN : Call("host_acl_default", allow, Ok([builder EXCEPT !.host_acl_default = allow]))
    \/ \E allow \in BOOLEAN : Call("port_acl_default", allow, Ok([builder EXCEPT !.port_acl_default = allow]))
    \/ \E allow \in BOOLEAN : Call("ip_acl_default", allow, Ok([builder EXCEPT !.ip_acl_default = allow]))
    \/ \E allow \in BOOLEAN : Call("header_acl_default", allow, Ok([builder EXCEPT !.header_acl_default = allow]))
    \/ \E allow \in BOOLEAN : Call("url_path_acl_default", allow, Ok([builder EXCEPT !.url_path_acl_default = allow]))

NextBuilder ==
    \/ Mutate
    \/ \E methods \in SeqUpTo(BuilderMethods, MaxLen) : LegacySetAllowedMethods(methods)
    \/ SerdeRoundTrip
    \/ Build
    \/ TryBuild
    \/ QueryBuilt
SpecBuilder == InitBuilder /\ [][NextBuilder]_vars

\* every mutator, on a builder that starts as HttpAclBuilder::new()
InitMutators ==
    /\ builder = NewBuilder
    /\ acl = None
    /\ lacl = LegacyDefaultAcl
    /\ q = NoQuery
    /\ out = None
    /\ ClientIdle

NextMutators == Mutate \/ Unset \/ TryBuild
SpecMutators == InitMutators /\ [][NextMutators]_vars

(***************************************************************************)
(* A client built as in test_http_acl_middleware: the middleware and the   *)
(* resolver wrapper share one policy.  The transport connects a request    *)
(* whose URL host is an IP literal to that address, and any other request  *)
(* to addresses the resolver returned for its host.  The delegate          *)
(* resolver's answer (dns) may change at any moment before it is asked.    *)
(***************************************************************************)
\* longest address list the delegate resolver returns
MaxAddrs == 2

GoodHost == <<"good", "example">>
ExampleCom == <<"example", "com">>

ClientHosts == {GoodHost, ExampleCom, <<"1", "1", "1", "1">>, <<"10", "0", "0", "5">>}

ClientNames == {GoodHost, ExampleCom}

ClientRequests ==
    {Request(scheme, verb, host, port, path) :
        scheme \in {"http", "ftp"}, verb \in {"GET", "BREW"}, host \in ClientHosts,
        port \in {None, Some(8080)}, path \in {<<"ok">>, <<"denied", "x">>}}
    \cup {Request("data", "GET", None, None, <<"ok">>)}

ClientDeniedPaths == {<<Lit("denied")>>, <<Lit("denied"), CatchAll>>}

ClientPolicies ==
    {[DefaultAcl EXCEPT !.allowed_hosts = {GoodHost}, !.denied_hosts = dh,
                        !.denied_ip_ranges = dl,
                        !.denied_url_paths_router = ClientDeniedPaths,
                        !.allow_non_global_ip_ranges = ng, !.ip_acl_default = d] :
        dh \in {{}, {ExampleCom}},
        dl \in {<<>>, <<IpRange(<<10, 0, 0, 0>>, <<10, 255, 255, 255>>)>>},
        ng \in BOOLEAN, d \in BOOLEAN}

TestAddrs ==
    {SocketAddr(<<10, 0, 0, 5>>, 80), SocketAddr(<<93, 184, 216, 34>>, 80),
     SocketAddr(<<93, 184, 216, 34>>, 8080)}

Answers ==
    {ResolveErr("failed to lookup address information")}
        \cup {ResolveOk(addrs) : addrs \in SeqUpTo(TestAddrs, MaxAddrs)}

\* the URL host is an IP literal: the transport connects to it unresolved
UrlHostIsIp(r) == r.host # None /\ IsIpv4Literal(r.host)

Init ==
    /\ builder = None
    /\ acl \in ClientPolicies
    /\ lacl = LegacyDefaultAcl
    /\ q = NoQuery
    /\ out = None
    /\ pc = "idle"
    /\ req = None
    /\ hres = None
    /\ dns \in Answers
    /\ rname = None
    /\ rans = None
    /\ rres = None
    /\ delegated = 0
    /\ conn = {}

\* the client is given a request to send
Send(r) ==
    /\ pc = "idle"
    /\ pc' = "pending"
    /\ req' = r
    /\ hres' = None
    /\ rname' = None
    /\ rans' = None
    /\ rres' = None
    /\ delegated' = 0
    /\ conn' = {}
    /\ UNCHANGED <<builder, acl, lacl, q, out, dns>>

\* HttpAclMiddleware::handle runs on the request
Handle ==
    /\ pc = "pending"
    /\ hres' = handle(acl, req)
    /\ pc' = IF hres'.kind = "forwarded" THEN "forwarded" ELSE "rejected"
    /\ UNCHANGED <<builder, acl, lacl, q, out, req, dns, rname, rans, rres, delegated, conn>>

\* the name's resolution changes
DnsChange(answer) ==
    /\ pc \in {"idle", "pending", "forwarded"}
    /\ answer # dns
    /\ dns' = answer
    /\ UNCHANGED <<builder, acl, lacl, q, out, pc, req, hres, rname, rans, rres, delegated, conn>>

\* the transport connects a forwarded request to its literal IP
ConnectLiteral ==
    /\ pc = "forwarded"
    /\ UrlHostIsIp(req)
    /\ conn' = {SocketAddr(Ipv4Of(req.host), port_or_known_default(req).some)}
    /\ pc' = "connected"
    /\ UNCHANGED <<builder, acl, lacl, q, out, req, hres, dns, rname, rans, rres, delegated>>

\* the transport resolves the host of a forwarded request through the wrapper
TransportResolve ==
    /\ pc = "forwarded"
    /\ ~UrlHostIsIp(req)
    /\ LET o == resolve(acl, req.host, dns) IN
           /\ rname' = req.host
           /\ rans' = IF o.calls > 0 THEN dns ELSE None
           /\ rres' = o.res
           /\ delegated' = o.calls
    /\ pc' = "resolved"
    /\ UNCHANGED <<builder, acl, lacl, q, out, req, hres, dns, conn>>

\* the transport connects to one of the addresses the wrapper returned
Connect(i) ==
    /\ pc = "resolved"
    /\ rres.ok
    /\ i \in 1..Len(rres.addrs)
    /\ conn' = conn \cup {SocketAddr(rres.addrs[i].ip, port_or_known_default(req).some)}
    /\ UNCHANGED <<builder, acl, lacl, q, out, pc, req, hres, dns, rname, rans, rres, delegated>>

\* the request is over
Done ==
    /\ pc \in {"rejected", "resolved", "connected"}
    /\ pc' = "idle"
    /\ req' = None
    /\ hres' = None
    /\ rname' = None
    /\ rans' = None
    /\ rres' = None
    /\ delegated' = 0
    /\ conn' = {}
    /\ UNCHANGED <<builder, acl, lacl, q, out, dns>>

\* HttpAclDnsResolver::resolve called on its own, for any name
DirectResolve(name) ==
    /\ pc = "idle"
    /\ LET o == resolve(acl, name, dns) IN
           /\ rname' = name
           /\ rans' = IF o.calls > 0 THEN dns ELSE None
           /\ rres' = o.res
           /\ delegated' = o.calls
    /\ UNCHANGED <<builder, acl, lacl, q, out, pc, req, hres, dns, conn>>

Next ==
    \/ \E r \in ClientRequests : Send(r)
    \/ Handle
    \/ \E answer \in Answers : DnsChange(answer)
    \/ ConnectLiteral
    \/ TransportResolve
    \/ \E i \in 1..MaxAddrs : Connect(i)
    \/ Done
    \/ \E name \in ClientNames : DirectResolve(name)

Spec == Init /\ [][Next]_vars

(***************************************************************************)
(* The same client with its policy handle shared: HttpAclMiddleware::acl   *)
(* hands out the Arc<HttpAcl>, and any task may query the policy between   *)
(* the steps of a request.                                                 *)
(***************************************************************************)
SharedPolicies ==
    {[a EXCEPT !.validate_fn = Some("valid_acl"),
               !.static_dns_mapping =
                   [h \in {GoodHost} |-> SocketAddr(<<93, 184, 216, 34>>, 80)]] :
        a \in {b \in ClientPolicies :
                  /\ b.denied_hosts = {ExampleCom}
                  /\ b.denied_ip_ranges # <<>>
                  /\ b.ip_acl_default}}

\* acl.is_scheme_allowed(scheme)
QueryScheme(scheme) ==
    /\ q' = [fn |-> "is_scheme_allowed", arg |-> scheme]
    /\ out' = is_scheme_allowed(acl, scheme)
    /\ UNCHANGED <<builder, acl, lacl, clientVars>>

\* acl.resolve_static_dns_mapping(host)
QueryStaticDns(host) ==
    /\ q' = [fn |-> "resolve_static_dns_mapping", arg |-> host]
    /\ out' = resolve_static_dns_mapping(acl, host)
    /\ UNCHANGED <<builder, acl, lacl, clientVars>>

InitShared ==
    /\ builder = None
    /\ acl \in SharedPolicies
    /\ lacl = LegacyDefaultAcl
    /\ q = NoQuery
    /\ out = None
    /\ pc = "idle"
    /\ req = None
    /\ hres = None
    /\ dns \in Answers
    /\ rname = None
    /\ rans = None
    /\ rres = None
    /\ delegated = 0
    /\ conn = {}

\* the nine query operations, on the handle the client works with
QueryShared ==
    \/ \E scheme \in {"http", "ftp"} : QueryScheme(scheme)
    \/ \E verb \in {"GET", "BREW"} : QueryMethod(verb)
    \/ \E host \in ClientNames : QueryHost(host)
    \/ \E port \in {80, 8080} : QueryPort(port)
    \/ \E ip \in {<<10, 0, 0, 5>>, <<93, 184, 216, 34>>} : QueryIp(ip)
    \/ QueryHeader("X-Other", "true")
    \/ \E path \in {<<"ok">>, <<"denied", "x">>} : QueryPath(path)
    \/ \E scheme \in ValidSchemes : QueryValid(scheme, AuthorityOk(HostDomain(GoodHost), 0),
                                               <<>>, None)
    \/ \E host \in ClientNames : QueryStaticDns(host)

NextShared == Next \/ QueryShared
SpecShared == InitShared /\ [][NextShared]_vars

(***************************************************************************)
(* The same client sending requests that carry headers, under policies     *)
(* that deny a host given as an IP literal, deny a header, or hold a       *)
(* validation callback.                                                    *)
(***************************************************************************)
IpLiteralHost == <<"1", "1", "1", "1">>

\* a request r with its header list and body
WithHeaders(r, headers, body) ==
    [scheme |-> r.scheme, verb |-> r.verb, host |-> r.host, port |-> r.port,
     path |-> r.path, headers |-> headers, body |-> body]

GateHeaders == {<<>>, <<<<"X-Other", "v">>>>, <<<<"X-Other", "v">>, <<"X-Denied", "true">>>>}

GateRequests ==
    {WithHeaders(Request(scheme, "GET", host, None, <<"ok">>), headers, None) :
        scheme \in {"http", "https"}, host \in {GoodHost, ExampleCom, IpLiteralHost},
        headers \in GateHeaders}

\* HttpAcl::builder().add_allowed_host("good.example")?.ip_acl_default(true),
\* then add_denied_host, add_denied_header("X-Denied", None) and
\* build_full(Some(validate_fn)) or none of them
GatePolicies ==
    {[DefaultAcl EXCEPT !.allowed_hosts = {GoodHost}, !.denied_hosts = dh,
                        !.denied_headers = dhd, !.ip_acl_default = TRUE,
                        !.validate_fn = f] :
        dh \in {{}, {ExampleCom}, {IpLiteralHost}},
        dhd \in {<<>>, [n \in {"X-Denied"} |-> None]},
        f \in {None, Some("deny_all"), Some("valid_acl")}}

InitGate ==
    /\ builder = None
    /\ acl \in GatePolicies
    /\ lacl = LegacyDefaultAcl
    /\ q = NoQuery
    /\ out = None
    /\ pc = "idle"
    /\ req = None
    /\ hres = None
    /\ dns = ResolveOk(<<SocketAddr(<<93, 184, 216, 34>>, 80)>>)
    /\ rname = None
    /\ rans = None
    /\ rres = None
    /\ delegated = 0
    /\ conn = {}

NextGate ==
    \/ \E r \in GateRequests : Send(r)
    \/ Handle
    \/ ConnectLiteral
    \/ TransportResolve
    \/ \E i \in 1..MaxAddrs : Connect(i)
    \/ Done

SpecGate == InitGate /\ [][NextGate]_vars

(***************************************************************************)
(* Claims about the per-dimension queries                                  *)
(***************************************************************************)
\* ip lies in some range of the list, both range ends included
InSomeIpRange(ip, ranges) ==
    \E i \in 1..Len(ranges) : IpLe(ranges[i].start, ip) /\ IpLe(ip, ranges[i].end)

NonGlobalDeniedCase ==
    /\ q.fn = "is_ip_allowed"
    /\ ~acl.allow_non_global_ip_ranges
    /\ ~is_global_ip(q.arg)

C7_LegacyIpPrecedence ==
    q.fn = "legacy_is_ip_allowed" =>
        LET ip == q.arg
            is_non_global == ~is_global_ip(ip) \/ is_loopback(ip)
            is_private == is_private_ip(ip)
            in_allowed == \E i \in 1..Len(lacl.allowed_ip_ranges) :
                              IpNetContains(lacl.allowed_ip_ranges[i], ip)
            in_denied == \E i \in 1..Len(lacl.denied_ip_ranges) :
                             IpNetContains(lacl.denied_ip_ranges[i], ip)
        IN  /\ (is_non_global /\ ~is_private /\ in_allowed) => out = AllowedUserAcl
            /\ (is_non_global /\ ~is_private /\ ~in_allowed) => out = DeniedNotGlobal
            /\ (~(is_non_global /\ ~is_private) /\ in_allowed) => out = AllowedUserAcl
            /\ (~(is_non_global /\ ~is_private) /\ ~in_allowed /\ in_denied) =>
                   out = DeniedUserAcl
            /\ (~(is_non_global /\ ~is_private) /\ ~in_allowed /\ ~in_denied
                    /\ is_private /\ ~lacl.allow_private_ip_ranges) =>
                   out = DeniedPrivateRange
            /\ (~(is_non_global /\ ~is_private) /\ ~in_allowed /\ ~in_denied
                    /\ ~(is_private /\ ~lacl.allow_private_ip_ranges)) =>
                   out = IF lacl.ip_acl_default THEN AllowedDefault ELSE DeniedDefault

\* a documentation-range address allowed by an explicit range although the
\* policy allows nothing by default
C7_Witness ==
    /\ q.fn = "legacy_is_ip_allowed"
    /\ q.arg = <<203, 0, 113, 12>>
    /\ ~lacl.ip_acl_default
    /\ ~lacl.allow_private_ip_ranges
    /\ out = AllowedUserAcl

\* C8: for a globally routable address, an allowed range (ends included)
\* gives AllowedUserAcl, else a denied range gives DeniedUserAcl, else
\* ip_acl_default decides.
C8_GlobalIpPrecedence ==
    (q.fn = "is_ip_allowed" /\ is_global_ip(q.arg)) =>
        out = IF InSomeIpRange(q.arg, acl.allowed_ip_ranges) THEN AllowedUserAcl
              ELSE IF InSomeIpRange(q.arg, acl.denied_ip_ranges) THEN DeniedUserAcl
              ELSE IF acl.ip_acl_default THEN AllowedDefault
              ELSE DeniedDefault

\* the last address of an allowed range that is also denied: allowed by rule
C8_Witness ==
    /\ q.fn = "is_ip_allowed"
    /\ q.arg = <<1, 255, 255, 255>>
    /\ \E i \in 1..Len(acl.allowed_ip_ranges) : acl.allowed_ip_ranges[i].end = q.arg
    /\ InSomeIpRange(q.arg, acl.denied_ip_ranges)
    /\ out = AllowedUserAcl

C10_HostPortDenyFirst ==
    /\ q.fn = "is_host_allowed" =>
           out = IF q.arg \in acl.denied_hosts THEN DeniedUserAcl
                 ELSE IF q.arg \in acl.allowed_hosts THEN AllowedUserAcl
                 ELSE IF acl.host_acl_default THEN AllowedDefault
                 ELSE DeniedDefault
    /\ q.fn = "is_port_allowed" =>
           LET in(ranges) == \E i \in 1..Len(ranges) :
                                 ranges[i].start <= q.arg /\ q.arg <= ranges[i].end
           IN  out = IF in(acl.denied_port_ranges) THEN DeniedUserAcl
                     ELSE IF in(acl.allowed_port_ranges) THEN AllowedUserAcl
                     ELSE IF acl.port_acl_default THEN AllowedDefault
                     ELSE DeniedDefault

\* a port at the end of a denied range that an allowed range covers too
C10_Witness ==
    /\ q.fn = "is_port_allowed"
    /\ q.arg = 8442
    /\ \E i \in 1..Len(acl.denied_port_ranges) : acl.denied_port_ranges[i].end = q.arg
    /\ \E i \in 1..Len(acl.allowed_port_ranges) :
           PortRangeContains(acl.allowed_port_ranges[i], q.arg)
    /\ out = DeniedUserAcl

(***************************************************************************)
(* Properties of the enforcement adapters, under Spec                      *)
(***************************************************************************)
\* C1: with handle and resolve over one policy, every socket address the
\* transport connects to has an allowed IP classification, whatever the
\* request and however the name's resolution changes between the pre-send
\* check and the connection.
C1_ConnectedIpAllowed ==
    \A c \in conn : is_allowed(is_ip_allowed(acl, c.ip))

\* a connection made for an allowed name whose answer at connection time
\* also held an address the policy denies
C1_Witness ==
    /\ pc = "resolved"
    /\ conn # {}
    /\ hres = Forwarded
    /\ rans # None /\ rans.ok
    /\ \E i \in 1..Len(rans.addrs) : is_denied(is_ip_allowed(acl, rans.addrs[i].ip))

\* the positions of the delegate's answer whose IP and port are both allowed
KeptPositions ==
    {i \in 1..Len(rans.addrs) :
        /\ is_allowed(is_ip_allowed(acl, rans.addrs[i].ip))
        /\ is_allowed(is_port_allowed(acl, rans.addrs[i].port))}

\* C2: for a host-allowed name, resolve returns exactly the addresses of the
\* delegate's answer whose IP and port classifications are both allowed, in
\* the delegate's order, none added.
C2_ResolveReturnsAllowedSubsequence ==
    (rres # None /\ rres.ok) =>
        /\ Len(rres.addrs) = Cardinality(KeptPositions)
        /\ \A i \in KeptPositions :
               rres.addrs[Cardinality({k \in KeptPositions : k <= i})] = rans.addrs[i]
        /\ \A j \in 1..Len(rres.addrs) :
               /\ is_allowed(is_ip_allowed(acl, rres.addrs[j].ip))
               /\ is_allowed(is_port_allowed(acl, rres.addrs[j].port))

\* [10.0.0.5, 93.184.216.34] answered for good.example under a policy that
\* denies 10.0.0.5: only the second address is returned
C2_Witness ==
    /\ rres # None /\ rres.ok
    /\ rname = GoodHost
    /\ rans.addrs = <<SocketAddr(<<10, 0, 0, 5>>, 80), SocketAddr(<<93, 184, 216, 34>>, 80)>>
    /\ rres.addrs = <<SocketAddr(<<93, 184, 216, 34>>, 80)>>

\* C3: resolve fails exactly when the host is denied, with the "denied by
\* ACL" error and the delegate never invoked, or when the delegate fails,
\* with the delegate's error; with the host allowed and the delegate
\* succeeding the result is a success, even with no address left.
C3_ResolveFailsOnDenialOrDelegateError ==
    rres # None =>
        IF is_denied(is_host_allowed(acl, rname))
        THEN /\ rres = ResolveErr("Host denied by ACL")
             /\ delegated = 0
             /\ rans = None
        ELSE /\ delegated = 1
             /\ rans # None
             /\ rans.ok => rres.ok
             /\ ~rans.ok => rres = rans

\* a resolution rejected for a denied host without asking the delegate,
\* while the delegate would have answered with addresses
C3_Witness ==
    /\ rres = ResolveErr("Host denied by ACL")
    /\ rname = ExampleCom
    /\ ExampleCom \in acl.denied_hosts
    /\ delegated = 0
    /\ dns.ok /\ dns.addrs # <<>>

\* the dimensions of a request in the order scheme, method, host-or-IP,
\* port, path, each with its classification
HandleDims ==
    <<[dim |-> "scheme", cls |-> is_scheme_allowed(acl, req.scheme)],
      [dim |-> "method", cls |-> is_method_allowed(acl, req.verb)]>>
    \o (IF req.host = None THEN <<>>
        ELSE IF UrlHostIsIp(req)
        THEN <<[dim |-> "ip", cls |-> is_ip_allowed(acl, Ipv4Of(req.host))]>>
        ELSE <<[dim |-> "host", cls |-> is_host_allowed(acl, req.host)]>>)
    \o (IF port_or_known_default(req) = None THEN <<>>
        ELSE <<[dim |-> "port",
                cls |-> is_port_allowed(acl, port_or_known_default(req).some)]>>)
    \o <<[dim |-> "path", cls |-> is_url_path_allowed(acl, req.path)]>>

\* C4: handle forwards a request exactly when its scheme, method, host or
\* IP, port and path are all allowed; otherwise its error names the first
\* denied dimension in that order with its classification, and the request
\* is never forwarded after a denial.
C4_HandleFirstDenialInOrder ==
    hres # None =>
        /\ hres = Forwarded <=>
               \A i \in 1..Len(HandleDims) : is_allowed(HandleDims[i].cls)
        /\ \A i \in 1..Len(HandleDims) :
               (/\ is_denied(HandleDims[i].cls)
                /\ \A j \in 1..(i - 1) : ~is_denied(HandleDims[j].cls)) =>
                   hres = HandleErr(HandleDims[i].dim, HandleDims[i].cls)
        /\ hres.kind = "err" => (pc = "rejected" /\ conn = {})

\* a request whose port and path are both denied: the error names the port
C4_Witness ==
    /\ pc = "rejected"
    /\ hres = HandleErr("port", DeniedDefault)
    /\ req.port = Some(8080)
    /\ is_denied(is_url_path_allowed(acl, req.path))

\* C5 as stated: handle resolves a host-allowed domain and IP-classifies
\* each address it resolves to, so it does not forward a request to an
\* allowed domain that resolves to an IP-denied address.
C5_HandleChecksResolvedAddresses ==
    [][(pc = "pending" /\ pc' = "forwarded" /\ ~UrlHostIsIp(req) /\ dns.ok) =>
           \A i \in 1..Len(dns.addrs) : is_allowed(is_ip_allowed(acl, dns.addrs[i].ip))]_vars

\* C5 amended: for a domain authority handle resolves nothing and
\* IP-classifies nothing: it forwards whenever scheme, method, host, port
\* and path are allowed, whatever the name resolves to.
C5_HandleForwardsDomainUnresolved ==
    (/\ hres # None
     /\ req.host # None
     /\ ~UrlHostIsIp(req)
     /\ is_allowed(is_scheme_allowed(acl, req.scheme))
     /\ is_allowed(is_method_allowed(acl, req.verb))
     /\ is_allowed(is_host_allowed(acl, req.host))
     /\ port_or_known_default(req) # None =>
            is_allowed(is_port_allowed(acl, port_or_known_default(req).some))
     /\ is_allowed(is_url_path_allowed(acl, req.path))) =>
        (hres = Forwarded /\ pc # "rejected")

\* a forwarded request to good.example while the name resolves to an
\* address the policy denies
C5_Witness ==
    /\ pc = "forwarded"
    /\ req.host = GoodHost
    /\ hres = Forwarded
    /\ dns.ok /\ dns.addrs # <<>>
    /\ \A i \in 1..Len(dns.addrs) : is_denied(is_ip_allowed(acl, dns.addrs[i].ip))

(***************************************************************************)
(* Properties of the header and path queries, under SpecHeaderPath         *)
(***************************************************************************)
\* C11: is_header_allowed looks the name up in allowed_headers first
\* (AllowedUserAcl when the stored value is absent or equals the value,
\* else DeniedUserAcl), then in denied_headers (DeniedUserAcl when the
\* stored value is absent or equals the value, else AllowedUserAcl,
\* whatever header_acl_default is), and else follows header_acl_default.
C11_HeaderAllowMapFirst ==
    q.fn = "is_header_allowed" =>
        LET name == q.arg[1]
            value == q.arg[2]
            hit(map) == map[name] = None \/ map[name] = Some(value)
        IN  /\ name \in DOMAIN acl.allowed_headers =>
                   out = IF hit(acl.allowed_headers) THEN AllowedUserAcl ELSE DeniedUserAcl
            /\ (name \notin DOMAIN acl.allowed_headers
                    /\ name \in DOMAIN acl.denied_headers) =>
                   out = IF hit(acl.denied_headers) THEN DeniedUserAcl ELSE AllowedUserAcl
            /\ (name \notin DOMAIN acl.allowed_headers
                    /\ name \notin DOMAIN acl.denied_headers) =>
                   out = IF acl.header_acl_default THEN AllowedDefault ELSE DeniedDefault

\* a header denied with the value "true" and sent with "false" is allowed
\* by rule although the default denies
C11_Witness ==
    /\ q.fn = "is_header_allowed"
    /\ q.arg = <<"X-Denied", "false">>
    /\ "X-Denied" \notin DOMAIN acl.allowed_headers
    /\ "X-Denied" \in DOMAIN acl.denied_headers
    /\ acl.denied_headers["X-Denied"] = Some("true")
    /\ ~acl.header_acl_default
    /\ out = AllowedUserAcl

QueriedDimension ==
    CASE q.fn = "is_method_allowed" -> "method"
      [] q.fn = "is_host_allowed" -> "host"
      [] q.fn = "is_port_allowed" -> "port"
      [] q.fn = "is_ip_allowed" -> "ip"
      [] q.fn = "is_header_allowed" -> "header"
      [] q.fn = "is_url_path_allowed" -> "path"
      [] OTHER -> ""

\* the policy has no allow rule and no deny rule in dimension D
NoRules(D) ==
    CASE D = "method" -> acl.allowed_methods = {} /\ acl.denied_methods = {}
      [] D = "host" -> acl.allowed_hosts = {} /\ acl.denied_hosts = {}
      [] D = "port" -> Len(acl.allowed_port_ranges) = 0 /\ Len(acl.denied_port_ranges) = 0
      [] D = "ip" -> Len(acl.allowed_ip_ranges) = 0 /\ Len(acl.denied_ip_ranges) = 0
      [] D = "header" -> DOMAIN acl.allowed_headers = {} /\ DOMAIN acl.denied_headers = {}
      [] D = "path" -> acl.allowed_url_paths_router = {} /\ acl.denied_url_paths_router = {}
      [] OTHER -> FALSE

DefaultFlag(D) ==
    CASE D = "method" -> acl.method_acl_default
      [] D = "host" -> acl.host_acl_default
      [] D = "port" -> acl.port_acl_default
      [] D = "ip" -> acl.ip_acl_default
      [] D = "header" -> acl.header_acl_default
      [] D = "path" -> acl.url_path_acl_default

DefaultOf(D) == IF DefaultFlag(D) THEN AllowedDefault ELSE DeniedDefault

\* C13 as stated: in each of the six dimensions a policy without rules in
\* that dimension classifies every input by the dimension's default flag,
\* whatever its other fields are.
C13_NoRulesGivesDefault ==
    (QueriedDimension # "" /\ NoRules(QueriedDimension)) =>
        out = DefaultOf(QueriedDimension)

\* C13 amended: so it is for method, host, port, header and path, and for
\* an IP when it is globally routable or allow_non_global_ip_ranges is
\* set; any other IP is DeniedNotGlobal whatever ip_acl_default is.
C13_NoRulesGivesDefaultUnlessNotGlobal ==
    (QueriedDimension # "" /\ NoRules(QueriedDimension)) =>
        out = IF /\ QueriedDimension = "ip"
                 /\ ~is_global_ip(q.arg)
                 /\ ~acl.allow_non_global_ip_ranges
              THEN DeniedNotGlobal
              ELSE DefaultOf(QueriedDimension)

\* 10.0.0.5 asked of a policy without IP rules whose IP default allows
C13_Witness ==
    /\ q.fn = "is_ip_allowed"
    /\ q.arg = <<10, 0, 0, 5>>
    /\ NoRules("ip")
    /\ acl.ip_acl_default
    /\ ~acl.allow_non_global_ip_ranges
    /\ out = DeniedNotGlobal

(***************************************************************************)
(* The builder: validation and conflicts                                   *)
(***************************************************************************)
\* the dimensions in which builder b holds one value in both of its lists
BothListed(b) ==
    {d \in {"method", "host", "port", "ip", "header", "path"} :
        CASE d = "method" -> Shared(b.allowed_methods, b.denied_methods)
          [] d = "host" -> Shared(b.allowed_hosts, b.denied_hosts)
          [] d = "port" -> Shared(b.allowed_port_ranges, b.denied_port_ranges)
          [] d = "ip" -> Shared(b.allowed_ip_ranges, b.denied_ip_ranges)
          [] d = "header" -> DOMAIN b.allowed_headers \cap DOMAIN b.denied_headers # {}
          [] d = "path" -> Shared(b.allowed_url_paths, b.denied_url_paths)}

\* this step is builder.fn(..) on a live builder
Calls(fn) == IsBuilder(builder) /\ q'.fn = fn

\* C14: whatever the builder holds, by its mutators or by deserialization,
\* try_build returns an error and no policy when some method, host, port
\* range, IP range, header or URL path is in both the allowed and the
\* denied list.
C14_TryBuildRejectsBothListed ==
    [][(Calls("try_build") /\ BothListed(builder) # {}) => ~out'.ok]_vars

\* a policy came out of try_build with a header name in both of its maps
C14_HeaderInBothMaps ==
    /\ q.fn = "try_build"
    /\ out.ok
    /\ DOMAIN acl.allowed_headers \cap DOMAIN acl.denied_headers # {}

\* the value asked about is in both lists of the builder that build()
\* consumed: the method, the host, the header name or the template that
\* the path matches is an entry of both, the port or the address is
\* inside a range of both
BuiltFromBothLists ==
    /\ IsConsumed(builder)
    /\ builder.consumed_by = "build"
    /\ LET b == builder.moved IN
       CASE q.fn = "is_method_allowed" ->
                /\ VecContains(b.allowed_methods, MethodFrom(q.arg))
                /\ VecContains(b.denied_methods, MethodFrom(q.arg))
         [] q.fn = "is_host_allowed" ->
                VecContains(b.allowed_hosts, q.arg) /\ VecContains(b.denied_hosts, q.arg)
         [] q.fn = "is_port_allowed" ->
                /\ is_port_in_ranges(q.arg, b.allowed_port_ranges)
                /\ is_port_in_ranges(q.arg, b.denied_port_ranges)
         [] q.fn = "is_ip_allowed" ->
                /\ is_ip_in_ranges(q.arg, b.allowed_ip_ranges)
                /\ is_ip_in_ranges(q.arg, b.denied_ip_ranges)
         [] q.fn = "is_header_allowed" ->
                q.arg[1] \in DOMAIN b.allowed_headers \cap DOMAIN b.denied_headers
         [] q.fn = "is_url_path_allowed" ->
                \E i \in 1..Len(b.allowed_url_paths) :
                    /\ VecContains(b.denied_url_paths, b.allowed_url_paths[i])
                    /\ TemplateMatches(ParseTemplate(b.allowed_url_paths[i]), q.arg)
         [] OTHER -> FALSE

C15_MethodAllowWins ==
    /\ BuiltFromBothLists
    /\ q.fn = "is_method_allowed"
    /\ out = AllowedUserAcl

\* /a/b in both path lists of a deserialized builder falls to the default
C15_PathListsIgnored ==
    /\ BuiltFromBothLists
    /\ q.fn = "is_url_path_allowed"
    /\ out = AllowedDefault

\* an entry occurs twice in the list
HasDuplicate(v) == \E i, j \in 1..Len(v) : i < j /\ v[i] = v[j]

\* two entries of the list of port ranges have a port in common
PortRangesShareValue(v) ==
    \E i, j \in 1..Len(v) :
        /\ i < j
        /\ \E port \in {v[i].start, v[i].end, v[j].start, v[j].end} :
               PortRangeContains(v[i], port) /\ PortRangeContains(v[j], port)

\* two entries of the list of IP ranges have an address in common
IpRangesShareValue(v) ==
    \E i, j \in 1..Len(v) :
        /\ i < j
        /\ \E ip \in {v[i].start, v[i].end, v[j].start, v[j].end} :
               IpRangeContains(v[i], ip) /\ IpRangeContains(v[j], ip)

\* what try_build is to reject in builder b: a duplicate entry in a list,
\* two ranges of one list with a value in common, an invalid host or an
\* invalid static DNS key
Malformed(b) ==
    \/ HasDuplicate(b.allowed_methods) \/ HasDuplicate(b.denied_methods)
    \/ HasDuplicate(b.allowed_hosts) \/ HasDuplicate(b.denied_hosts)
    \/ HasDuplicate(b.allowed_port_ranges) \/ HasDuplicate(b.denied_port_ranges)
    \/ HasDuplicate(b.allowed_ip_ranges) \/ HasDuplicate(b.denied_ip_ranges)
    \/ HasDuplicate(b.allowed_url_paths) \/ HasDuplicate(b.denied_url_paths)
    \/ PortRangesShareValue(b.allowed_port_ranges)
    \/ PortRangesShareValue(b.denied_port_ranges)
    \/ IpRangesShareValue(b.allowed_ip_ranges)
    \/ IpRangesShareValue(b.denied_ip_ranges)
    \/ \E i \in 1..Len(b.allowed_hosts) : ~is_valid_host(b.allowed_hosts[i])
    \/ \E i \in 1..Len(b.denied_hosts) : ~is_valid_host(b.denied_hosts[i])
    \/ \E host \in DOMAIN b.static_dns_mapping : ~is_valid_host(host)

\* try_build has consumed the builder
TriedBuild == IsConsumed(builder) /\ builder.consumed_by = "try_build"

\* C16 as stated: try_build returns an error that is NotUnique, Overlaps or
\* InvalidEntity when a list holds a duplicate, when two ranges of one list
\* share a value, and when a host or a static DNS key is invalid.
C16_TryBuildErrorKinds ==
    (TriedBuild /\ Malformed(builder.moved)) =>
        /\ acl = None
        /\ ~out.ok
        /\ out.err \in {"NotUnique", "Overlaps", "InvalidEntity"}

\* C16 amended: try_build returns an error and no policy in each of these
\* cases, so a policy it returns comes from a builder with none of them;
\* the error is BothAllowedAndDenied instead when a check of a value in
\* both lists comes first.
C16_TryBuildRejectsMalformed ==
    (TriedBuild /\ Malformed(builder.moved)) =>
        /\ acl = None
        /\ ~out.ok
        /\ out.err \in {"NotUnique", "Overlaps", "InvalidEntity", "BothAllowedAndDenied"}

\* 8440..=8442 and 8441..=8443, both allowed: try_build says Overlaps
C16_Witness ==
    /\ TriedBuild
    /\ PortRangesShareValue(builder.moved.allowed_port_ranges)
    /\ ~out.ok
    /\ out.err = "Overlaps"

\* GET allowed and GET, GET denied: the error is BothAllowedAndDenied
C16_BothListedFirst ==
    /\ TriedBuild
    /\ HasDuplicate(builder.moved.denied_methods)
    /\ out.err = "BothAllowedAndDenied"

(***************************************************************************)
(* The builder: adding one range                                           *)
(***************************************************************************)
\* the two ranges have a port, or an address, in common
PortRangesIntersect(a, b) ==
    \E port \in {a.start, a.end, b.start, b.end} :
        PortRangeContains(a, port) /\ PortRangeContains(b, port)

IpRangesIntersect(a, b) ==
    \E ip \in {a.start, a.end, b.start, b.end} :
        IpRangeContains(a, ip) /\ IpRangeContains(b, ip)

\* the new range is apart from every range of both lists of the builder
PortRangeApart(b, r) ==
    /\ \A i \in 1..Len(b.allowed_port_ranges) :
           ~PortRangesIntersect(b.allowed_port_ranges[i], r)
    /\ \A i \in 1..Len(b.denied_port_ranges) :
           ~PortRangesIntersect(b.denied_port_ranges[i], r)

IpRangeApart(b, r) ==
    /\ \A i \in 1..Len(b.allowed_ip_ranges) : ~IpRangesIntersect(b.allowed_ip_ranges[i], r)
    /\ \A i \in 1..Len(b.denied_ip_ranges) : ~IpRangesIntersect(b.denied_ip_ranges[i], r)

\* the new range has a value in common with a range of either list that
\* is not equal to it
PortRangeOverlapsOther(b, r) ==
    \/ \E i \in 1..Len(b.allowed_port_ranges) :
           b.allowed_port_ranges[i] # r /\ PortRangesIntersect(b.allowed_port_ranges[i], r)
    \/ \E i \in 1..Len(b.denied_port_ranges) :
           b.denied_port_ranges[i] # r /\ PortRangesIntersect(b.denied_port_ranges[i], r)

IpRangeOverlapsOther(b, r) ==
    \/ \E i \in 1..Len(b.allowed_ip_ranges) :
           b.allowed_ip_ranges[i] # r /\ IpRangesIntersect(b.allowed_ip_ranges[i], r)
    \/ \E i \in 1..Len(b.denied_ip_ranges) :
           b.denied_ip_ranges[i] # r /\ IpRangesIntersect(b.denied_ip_ranges[i], r)

\* the builder that the call returns, when it appends r to its own list
Appended(fn, b, r) ==
    CASE fn = "add_allowed_port_range" -> [b EXCEPT !.allowed_port_ranges = Append(@, r)]
      [] fn = "add_denied_port_range" -> [b EXCEPT !.denied_port_ranges = Append(@, r)]
      [] fn = "add_allowed_ip_range" -> [b EXCEPT !.allowed_ip_ranges = Append(@, r)]
      [] fn = "add_denied_ip_range" -> [b EXCEPT !.denied_ip_ranges = Append(@, r)]

\* r is an entry of the allowed, or of the denied, list that fn adds to
\* or checks against
InAllowedRanges(fn, b, r) ==
    IF fn \in {"add_allowed_port_range", "add_denied_port_range"}
    THEN VecContains(b.allowed_port_ranges, r)
    ELSE VecContains(b.allowed_ip_ranges, r)

InDeniedRanges(fn, b, r) ==
    IF fn \in {"add_allowed_port_range", "add_denied_port_range"}
    THEN VecContains(b.denied_port_ranges, r)
    ELSE VecContains(b.denied_ip_ranges, r)

OverlapsOther(fn, b, r) ==
    IF fn \in {"add_allowed_port_range", "add_denied_port_range"}
    THEN PortRangeOverlapsOther(b, r)
    ELSE IpRangeOverlapsOther(b, r)

Apart(fn, b, r) ==
    IF fn \in {"add_allowed_port_range", "add_denied_port_range"}
    THEN PortRangeApart(b, r)
    ELSE IpRangeApart(b, r)

\* start <= end
WellFormed(fn, r) ==
    IF fn \in {"add_allowed_port_range", "add_denied_port_range"}
    THEN r.start <= r.end
    ELSE IpLe(r.start, r.end)

\* so are the ranges that the builder holds
HoldsWellFormed(fn, b) ==
    IF fn \in {"add_allowed_port_range", "add_denied_port_range"}
    THEN \A i \in 1..Len(b.allowed_port_ranges \o b.denied_port_ranges) :
             WellFormed(fn, (b.allowed_port_ranges \o b.denied_port_ranges)[i])
    ELSE \A i \in 1..Len(b.allowed_ip_ranges \o b.denied_ip_ranges) :
             WellFormed(fn, (b.allowed_ip_ranges \o b.denied_ip_ranges)[i])

AddRangeFns ==
    {"add_allowed_port_range", "add_denied_port_range",
     "add_allowed_ip_range", "add_denied_ip_range"}

\* C17 as stated: each of the four range adders rejects with Overlaps every
\* new range that has a value in common with an existing range of either
\* list that is not equal to it, and accepts and appends a range that
\* intersects no existing range.
C17_AddRangeRejectsOverlap ==
    [][\A fn \in AddRangeFns :
          Calls(fn) =>
              /\ OverlapsOther(fn, builder, q'.arg) =>
                     ~out'.ok /\ out'.err = "Overlaps"
              /\ Apart(fn, builder, q'.arg) =>
                     out'.ok /\ out'.v = Appended(fn, builder, q'.arg)]_vars

\* C17 amended: where every range has start <= end, a new range that is an
\* entry of neither list is rejected with Overlaps when it has a value in
\* common with an existing range, and is accepted and appended when it has
\* none; one that is an entry of a list is rejected as already denied or
\* already allowed, whatever else it overlaps; an IP range with start above
\* end is rejected as InvalidEntity; a rejection inserts nothing.
C17_AddNewRangeRejectsOverlap ==
    [][\A fn \in AddRangeFns :
          Calls(fn) =>
              LET r == q'.arg
                  listed == InAllowedRanges(fn, builder, r) \/ InDeniedRanges(fn, builder, r)
                  wf == WellFormed(fn, r) /\ HoldsWellFormed(fn, builder)
              IN  /\ (wf /\ ~listed /\ OverlapsOther(fn, builder, r)) =>
                         ~out'.ok /\ out'.err = "Overlaps"
                  /\ (wf /\ Apart(fn, builder, r)) =>
                         out'.ok /\ out'.v = Appended(fn, builder, r)
                  /\ listed =>
                         /\ ~out'.ok
                         /\ out'.err \in {"AlreadyDeniedPortRange", "AlreadyAllowedPortRange",
                                          "AlreadyDeniedIpRange", "AlreadyAllowedIpRange"}
                  /\ (fn \in {"add_allowed_ip_range", "add_denied_ip_range"}
                          /\ ~WellFormed(fn, r)) =>
                         ~out'.ok /\ out'.err = "InvalidEntity"
                  /\ ~out'.ok => out'.v = builder]_vars

\* 8441..=8443 refused as denied while 8440..=8442 is allowed
C17_Witness ==
    /\ q.fn = "add_denied_port_range"
    /\ q.arg = PortRange(8441, 8443)
    /\ IsConsumed(builder)
    /\ builder.consumed_by = "add_denied_port_range"
    /\ builder.moved.allowed_port_ranges = <<PortRange(8440, 8442)>>
    /\ builder.moved.denied_port_ranges = <<>>
    /\ ~out.ok
    /\ out.err = "Overlaps"

\* a range that is an entry of a list and overlaps another entry is
\* refused as already allowed, not as overlapping
C17_ListedAndOverlapping ==
    /\ q.fn = "add_allowed_port_range"
    /\ IsConsumed(builder)
    /\ builder.consumed_by = "add_allowed_port_range"
    /\ PortRangeOverlapsOther(builder.moved, q.arg)
    /\ out.err = "AlreadyAllowedPortRange"

\* the port range 8442..=8441 holds no port and is refused as overlapping
C17_EmptyRangeOverlaps ==
    /\ q.fn = "add_allowed_port_range"
    /\ q.arg = PortRange(8442, 8441)
    /\ out.err = "Overlaps"

(***************************************************************************)
(* The builder: adding one value                                           *)
(***************************************************************************)
AddAllowedFns ==
    {"add_allowed_method", "add_allowed_host", "add_allowed_port_range",
     "add_allowed_ip_range", "add_allowed_header", "add_allowed_url_path"}

AddDeniedFns ==
    {"add_denied_method", "add_denied_host", "add_denied_port_range",
     "add_denied_ip_range", "add_denied_header", "add_denied_url_path"}

\* the dimension that the call works on
DimensionOf(fn) ==
    CASE fn \in {"add_allowed_method", "add_denied_method",
                 "allowed_methods", "denied_methods"} -> "Method"
      [] fn \in {"add_allowed_host", "add_denied_host",
                 "allowed_hosts", "denied_hosts"} -> "Host"
      [] fn \in {"add_allowed_port_range", "add_denied_port_range",
                 "allowed_port_ranges", "denied_port_ranges"} -> "PortRange"
      [] fn \in {"add_allowed_ip_range", "add_denied_ip_range",
                 "allowed_ip_ranges", "denied_ip_ranges"} -> "IpRange"
      [] fn \in {"add_allowed_header", "add_denied_header",
                 "allowed_headers", "denied_headers"} -> "Header"
      [] fn \in {"add_allowed_url_path", "add_denied_url_path",
                 "allowed_url_paths", "denied_url_paths"} -> "UrlPath"

\* the value is an entry of the allowed list of dimension d (for a header,
\* its name is a key of the map)
ListedAllowed(d, b, v) ==
    CASE d = "Method" -> VecContains(b.allowed_methods, v)
      [] d = "Host" -> VecContains(b.allowed_hosts, v)
      [] d = "PortRange" -> VecContains(b.allowed_port_ranges, v)
      [] d = "IpRange" -> VecContains(b.allowed_ip_ranges, v)
      [] d = "Header" -> v[1] \in DOMAIN b.allowed_headers
      [] d = "UrlPath" -> VecContains(b.allowed_url_paths, v)

ListedDenied(d, b, v) ==
    CASE d = "Method" -> VecContains(b.denied_methods, v)
      [] d = "Host" -> VecContains(b.denied_hosts, v)
      [] d = "PortRange" -> VecContains(b.denied_port_ranges, v)
      [] d = "IpRange" -> VecContains(b.denied_ip_ranges, v)
      [] d = "Header" -> v[1] \in DOMAIN b.denied_headers
      [] d = "UrlPath" -> VecContains(b.denied_url_paths, v)

\* a range of the allowed, or of the denied, list has a value in common
\* with the range v
OverlapsAllowed(d, b, v) ==
    CASE d = "PortRange" -> \E i \in 1..Len(b.allowed_port_ranges) :
                                PortRangesIntersect(b.allowed_port_ranges[i], v)
      [] d = "IpRange" -> \E i \in 1..Len(b.allowed_ip_ranges) :
                              IpRangesIntersect(b.allowed_ip_ranges[i], v)
      [] OTHER -> FALSE

OverlapsDenied(d, b, v) ==
    CASE d = "PortRange" -> \E i \in 1..Len(b.denied_port_ranges) :
                                PortRangesIntersect(b.denied_port_ranges[i], v)
      [] d = "IpRange" -> \E i \in 1..Len(b.denied_ip_ranges) :
                              IpRangesIntersect(b.denied_ip_ranges[i], v)
      [] OTHER -> FALSE

\* the template text v, read as a path, is matched by a template that the
\* mutators put into the allow, or the deny, router
RoutedAllowed(d, b, v) ==
    d = "UrlPath" /\ \E t \in b.allowed_url_paths_router : TemplateMatches(t, v)

RoutedDenied(d, b, v) ==
    d = "UrlPath" /\ \E t \in b.denied_url_paths_router : TemplateMatches(t, v)

\* the value passes the validation that the adder of dimension d starts with
ValidEntity(d, v) ==
    CASE d = "Host" -> IsIpv4Literal(v) \/ UrlHostParseOk(v)
      [] d = "IpRange" -> IpLe(v.start, v.end)
      [] OTHER -> TRUE

AlreadyAllowed(d) ==
    CASE d = "Method" -> "AlreadyAllowedMethod"
      [] d = "Host" -> "AlreadyAllowedHost"
      [] d = "PortRange" -> "AlreadyAllowedPortRange"
      [] d = "IpRange" -> "AlreadyAllowedIpRange"
      [] d = "Header" -> "AlreadyAllowedHeader"
      [] d = "UrlPath" -> "AlreadyAllowedUrlPath"

AlreadyDenied(d) ==
    CASE d = "Method" -> "AlreadyDeniedMethod"
      [] d = "Host" -> "AlreadyDeniedHost"
      [] d = "PortRange" -> "AlreadyDeniedPortRange"
      [] d = "IpRange" -> "AlreadyDeniedIpRange"
      [] d = "Header" -> "AlreadyDeniedHeader"
      [] d = "UrlPath" -> "AlreadyDeniedUrlPath"

\* C18 as stated: add_allowed_X rejects with AlreadyDenied when the value,
\* or for ranges an overlapping range, is in the denied list, and with
\* AlreadyAllowed when the value is in the allowed list, the denied list
\* being looked at first; add_denied_X likewise with the lists exchanged;
\* neither rejection inserts anything.
C18_AddRejectsListed ==
    [][\A fn \in AddAllowedFns \cup AddDeniedFns :
          Calls(fn) =>
              LET d == DimensionOf(fn)
                  v == q'.arg
                  denied == ListedDenied(d, builder, v) \/ OverlapsDenied(d, builder, v)
                  allowed == ListedAllowed(d, builder, v) \/ OverlapsAllowed(d, builder, v)
              IN  IF fn \in AddAllowedFns
                  THEN /\ denied => ~out'.ok /\ out'.err = AlreadyDenied(d)
                       /\ (~denied /\ ListedAllowed(d, builder, v)) =>
                              ~out'.ok /\ out'.err = AlreadyAllowed(d)
                  ELSE /\ allowed => ~out'.ok /\ out'.err = AlreadyAllowed(d)
                       /\ (~allowed /\ ListedDenied(d, builder, v)) =>
                              ~out'.ok /\ out'.err = AlreadyDenied(d)]_vars

\* C18 amended: so it is for a valid value that is itself an entry of the
\* list; for a URL path a template that the other router matches counts as
\* listed there; a range that only overlaps an entry is rejected with
\* Overlaps, and an invalid host or IP range with InvalidEntity, before any
\* list is looked at.
C18_AddRejectsListedValue ==
    [][\A fn \in AddAllowedFns \cup AddDeniedFns :
          Calls(fn) =>
              LET d == DimensionOf(fn)
                  v == q'.arg
                  denied == ListedDenied(d, builder, v) \/ RoutedDenied(d, builder, v)
                  allowed == ListedAllowed(d, builder, v) \/ RoutedAllowed(d, builder, v)
              IN  /\ ~ValidEntity(d, v) => ~out'.ok /\ out'.err = "InvalidEntity"
                  /\ ValidEntity(d, v) =>
                         IF fn \in AddAllowedFns
                         THEN /\ denied => ~out'.ok /\ out'.err = AlreadyDenied(d)
                              /\ (~denied /\ allowed) =>
                                     ~out'.ok /\ out'.err = AlreadyAllowed(d)
                         ELSE /\ allowed => ~out'.ok /\ out'.err = AlreadyAllowed(d)
                              /\ (~allowed /\ denied) =>
                                     ~out'.ok /\ out'.err = AlreadyDenied(d)
                  /\ (~denied /\ ~allowed /\ ValidEntity(d, v)
                          /\ (OverlapsDenied(d, builder, v) \/ OverlapsAllowed(d, builder, v))) =>
                         ~out'.ok /\ out'.err = "Overlaps"
                  /\ ~out'.ok => out'.v = builder]_vars

\* add_denied_method(GET) on new(), where GET is allowed
C18_Witness ==
    /\ q.fn = "add_denied_method"
    /\ q.arg = Method("GET")
    /\ IsConsumed(builder)
    /\ builder.moved = NewBuilder
    /\ ~out.ok
    /\ out.err = "AlreadyAllowedMethod"
    /\ out.v = NewBuilder

\* 8441..=8443 while 8440..=8442 is denied: Overlaps, not AlreadyDenied
C18_OverlapIsNotAlreadyDenied ==
    /\ q.fn = "add_allowed_port_range"
    /\ q.arg = PortRange(8441, 8443)
    /\ IsConsumed(builder)
    /\ builder.moved.denied_port_ranges = <<PortRange(8440, 8442)>>
    /\ out.err = "Overlaps"

(***************************************************************************)
(* The builder: replacing a list                                           *)
(***************************************************************************)
SetAllowedFns ==
    {"allowed_methods", "allowed_hosts", "allowed_port_ranges",
     "allowed_ip_ranges", "allowed_headers", "allowed_url_paths"}

SetDeniedFns ==
    {"denied_methods", "denied_hosts", "denied_port_ranges",
     "denied_ip_ranges", "denied_headers", "denied_url_paths"}

\* the allowed, and the denied, list of dimension d in builder b
AllowedList(d, b) ==
    CASE d = "Method" -> b.allowed_methods
      [] d = "Host" -> b.allowed_hosts
      [] d = "PortRange" -> b.allowed_port_ranges
      [] d = "IpRange" -> b.allowed_ip_ranges
      [] d = "Header" -> b.allowed_headers
      [] d = "UrlPath" -> b.allowed_url_paths

DeniedList(d, b) ==
    CASE d = "Method" -> b.denied_methods
      [] d = "Host" -> b.denied_hosts
      [] d = "PortRange" -> b.denied_port_ranges
      [] d = "IpRange" -> b.denied_ip_ranges
      [] d = "Header" -> b.denied_headers
      [] d = "UrlPath" -> b.denied_url_paths

\* the entries of a replacement list (for headers, the pairs of the map)
Entries(d, l) ==
    IF d = "Header" THEN {<<k, l[k]>> : k \in DOMAIN l}
    ELSE {l[i] : i \in 1..Len(l)}

\* the replacement list has a duplicate or two ranges with a common value
SelfConflict(d, l) ==
    CASE d = "Header" -> FALSE
      [] d = "PortRange" -> HasDuplicate(l) \/ PortRangesShareValue(l)
      [] d = "IpRange" -> HasDuplicate(l) \/ IpRangesShareValue(l)
      [] OTHER -> HasDuplicate(l)

\* C19: each of the twelve bulk setters accepts a replacement list only
\* if it has no element in common with the opposite list, and for ranges
\* no overlap with it, and has itself no duplicate and no two overlapping
\* ranges; when it accepts, the field is the replacement list; when it
\* rejects, every field is as before.
C19_BulkSetterValidatesReplacement ==
    [][\A fn \in SetAllowedFns \cup SetDeniedFns :
          Calls(fn) =>
              LET d == DimensionOf(fn)
                  l == q'.arg
                  opposite == \E v \in Entries(d, l) :
                                  IF fn \in SetAllowedFns
                                  THEN ListedDenied(d, builder, v) \/ OverlapsDenied(d, builder, v)
                                  ELSE ListedAllowed(d, builder, v)
                                           \/ OverlapsAllowed(d, builder, v)
              IN  /\ out'.ok => ~opposite /\ ~SelfConflict(d, l)
                  /\ out'.ok =>
                         IF fn \in SetAllowedFns
                         THEN /\ AllowedList(d, out'.v) = l
                              /\ DeniedList(d, out'.v) = DeniedList(d, builder)
                         ELSE /\ DeniedList(d, out'.v) = l
                              /\ AllowedList(d, out'.v) = AllowedList(d, builder)
                  /\ (~out'.ok /\ out'.err # "InvalidEntity") => out'.v = builder]_vars

\* denied_port_ranges([8441..=8443]) is accepted while 8440..=8442 is allowed
C19_DeniedPortRangesOverlap ==
    /\ q.fn = "denied_port_ranges"
    /\ q.arg = <<PortRange(8441, 8443)>>
    /\ out.ok
    /\ IsBuilder(builder)
    /\ builder.allowed_port_ranges = <<PortRange(8440, 8442)>>
    /\ builder.denied_port_ranges = <<PortRange(8441, 8443)>>

\* allowed_methods([GET, GET]) is accepted
C19_DuplicateMethodsAccepted ==
    /\ q.fn = "allowed_methods"
    /\ HasDuplicate(q.arg)
    /\ out.ok

\* the legacy allowed_methods accepts [BREW, BREW] on new()
C19_LegacyDuplicateMethodsAccepted ==
    /\ q.fn = "legacy_allowed_methods"
    /\ HasDuplicate(q.arg)
    /\ out.ok

(***************************************************************************)
(* The builder: URL path templates                                         *)
(***************************************************************************)
\* C20: in a policy that try_build returned, no request path is matched
\* both by a template of the allow router and by one of the deny router.
C20_NoPathInBothRouters ==
    (TriedBuild /\ acl # None) =>
        \A path \in BuiltPaths :
            ~(/\ \E t \in acl.allowed_url_paths_router : TemplateMatches(t, path)
              /\ \E t \in acl.denied_url_paths_router : TemplateMatches(t, path))

\* a deserialized builder with /a/b allowed and /a/{*path} denied passes
\* try_build, and the policy allows /a/b
C20_DeserializedLiteralAndCatchAll ==
    /\ TriedBuild
    /\ acl # None
    /\ builder.moved.allowed_url_paths = <<(<<"a", "b">>)>>
    /\ builder.moved.denied_url_paths = <<(<<"a", "{*path}">>)>>
    /\ builder.moved.allowed_url_paths_router = {}
    /\ builder.moved.denied_url_paths_router = {}
    /\ q.fn = "is_url_path_allowed"
    /\ q.arg = <<"a", "b">>
    /\ out = AllowedUserAcl

\* add_allowed_url_path("/a/{*path}"), add_denied_url_path("/{id}/b") and
\* try_build all return Ok, and the policy allows /a/b
C20_CrossingTemplates ==
    /\ TriedBuild
    /\ acl # None
    /\ builder.moved.allowed_url_paths = <<(<<"a", "{*path}">>)>>
    /\ builder.moved.denied_url_paths = <<(<<"{id}", "b">>)>>
    /\ builder.moved.allowed_url_paths_router # {}
    /\ builder.moved.denied_url_paths_router # {}
    /\ q.fn = "is_url_path_allowed"
    /\ q.arg = <<"a", "b">>
    /\ out = AllowedUserAcl

(***************************************************************************)
(* C21: a serde round trip before try_build                                *)
(***************************************************************************)
\* every path of up to three segments over a, b, c
CorpusPaths == SeqUpTo({"a", "b", "c"}, 3) \ {<<>>}

\* two policies classify every input of every dimension alike
SameClassification(a1, a2) ==
    /\ \A scheme \in {"http", "https", "ftp"} :
           is_scheme_allowed(a1, scheme) = is_scheme_allowed(a2, scheme)
    /\ \A verb \in BuiltVerbs : is_method_allowed(a1, verb) = is_method_allowed(a2, verb)
    /\ \A host \in BuiltHosts \cup BuilderHosts :
           is_host_allowed(a1, host) = is_host_allowed(a2, host)
    /\ \A port \in BuiltPorts \cup {443, 8442, 8443} :
           is_port_allowed(a1, port) = is_port_allowed(a2, port)
    /\ \A ip \in BuiltIps \cup {<<93, 184, 216, 34>>} :
           is_ip_allowed(a1, ip) = is_ip_allowed(a2, ip)
    /\ \A name \in TestHeaderNames, value \in TestHeaderValues :
           is_header_allowed(a1, name, value) = is_header_allowed(a2, name, value)
    /\ \A path \in CorpusPaths :
           is_url_path_allowed(a1, path) = is_url_path_allowed(a2, path)

\* two routers match the same paths
SameMatches(r1, r2) == \A path \in CorpusPaths : RouterAt(r1, path) <=> RouterAt(r2, path)

\* the builder has just come back from a serde round trip
RoundTripped == q.fn = "serde" /\ IsBuilder(builder) /\ IsBuilder(q.arg)

\* C21: whenever try_build succeeds on a builder, it also succeeds on the
\* builder after serialize and deserialize (lists kept, both routers
\* empty), the two policies classify every input of every dimension alike,
\* and the rebuilt routers match exactly the paths the original ones match
C21_RoundTripSameClassification ==
    RoundTripped /\ try_build_full(q.arg).ok =>
        LET original == try_build_full(q.arg)
            rebuilt == try_build_full(builder)
        IN  /\ rebuilt.ok
            /\ SameClassification(original.v, rebuilt.v)
            /\ SameMatches(original.v.allowed_url_paths_router,
                           rebuilt.v.allowed_url_paths_router)
            /\ SameMatches(original.v.denied_url_paths_router,
                           rebuilt.v.denied_url_paths_router)

\* allowed_url_paths(["/{id}/{key}", "/a/{*path}"]) puts both templates in
\* the router; after the round trip try_build finds the text "/a/{*path}"
\* matched by "/{id}/{key}" and leaves the catch-all out, so /a/b/c is no
\* longer matched
C21_CatchAllLeftOut ==
    /\ RoundTripped
    /\ q.arg.allowed_url_paths = CrossingUrlPaths
    /\ try_build_full(q.arg).ok
    /\ try_build_full(builder).ok
    /\ is_url_path_allowed(try_build_full(q.arg).v, <<"a", "b", "c">>) = AllowedUserAcl
    /\ is_url_path_allowed(try_build_full(builder).v, <<"a", "b", "c">>) = AllowedDefault

\* the same with the denied list: the rebuilt policy lets /a/b/c through
C21_DeniedCatchAllLeftOut ==
    /\ RoundTripped
    /\ q.arg.denied_url_paths = CrossingUrlPaths
    /\ try_build_full(q.arg).ok
    /\ try_build_full(builder).ok
    /\ is_url_path_allowed(try_build_full(q.arg).v, <<"a", "b", "c">>) = DeniedUserAcl
    /\ is_url_path_allowed(try_build_full(builder).v, <<"a", "b", "c">>) = AllowedDefault

\* the serialized builder held two allowed templates in its router, the
\* round trip emptied both routers, and try_build takes either builder
C21_Witness ==
    /\ RoundTripped
    /\ Cardinality(q.arg.allowed_url_paths_router) = 2
    /\ builder.allowed_url_paths_router = {}
    /\ builder.denied_url_paths_router = {}
    /\ builder.allowed_url_paths = q.arg.allowed_url_paths
    /\ try_build_full(q.arg).ok
    /\ try_build_full(builder).ok

(***************************************************************************)
(* C22: is_valid is the callback, or AllowedDefault without one            *)
(***************************************************************************)
\* C22: is_valid returns AllowedDefault for every (scheme, authority,
\* headers, body) when the policy carries no validation callback; with a
\* callback it returns what the callback returns for those arguments, and
\* every policy with the same callback, whatever its lists and default
\* flags, returns the same
C22_IsValidIsTheCallback ==
    q.fn = "is_valid" =>
        /\ acl.validate_fn = None => out = AllowedDefault
        /\ acl.validate_fn # None =>
               out = CallValidateFn(acl.validate_fn.some,
                                    q.arg[1], q.arg[2], q.arg[3], q.arg[4])
        /\ \A a \in ValidPolicies :
               a.validate_fn = acl.validate_fn =>
                   is_valid(a, q.arg[1], q.arg[2], q.arg[3], q.arg[4]) = out

\* a policy that denies the scheme, with the closure of valid_acl, was
\* asked about an https request and the closure let it through
C22_Witness ==
    /\ q.fn = "is_valid"
    /\ acl.validate_fn = Some("valid_acl")
    /\ ~acl.allow_https
    /\ q.arg[1] = "https"
    /\ out = AllowedDefault

\* a policy without a closure that denies the scheme still answers
\* AllowedDefault
C22_NoCallback ==
    /\ q.fn = "is_valid"
    /\ acl.validate_fn = None
    /\ ~acl.allow_http
    /\ q.arg[1] = "http"
    /\ out = AllowedDefault

(***************************************************************************)
(* C23: the queries leave the policy as it is                              *)
(***************************************************************************)
\* what the query recorded in q returns when it is run alone on a policy
Alone(a) ==
    CASE q.fn = "is_scheme_allowed" -> is_scheme_allowed(a, q.arg)
      [] q.fn = "is_method_allowed" -> is_method_allowed(a, q.arg)
      [] q.fn = "is_host_allowed" -> is_host_allowed(a, q.arg)
      [] q.fn = "is_port_allowed" -> is_port_allowed(a, q.arg)
      [] q.fn = "is_ip_allowed" -> is_ip_allowed(a, q.arg)
      [] q.fn = "is_header_allowed" -> is_header_allowed(a, q.arg[1], q.arg[2])
      [] q.fn = "is_url_path_allowed" -> is_url_path_allowed(a, q.arg)
      [] q.fn = "is_valid" -> is_valid(a, q.arg[1], q.arg[2], q.arg[3], q.arg[4])
      [] q.fn = "resolve_static_dns_mapping" -> resolve_static_dns_mapping(a, q.arg)

\* every result a task still holds is the one its call gives when run alone
\* on the policy: the last query, the verdict of handle on the request,
\* and the answer of the resolver wrapper
ResultsAsAlone ==
    /\ q # NoQuery => out = Alone(acl)
    /\ hres # None => hres = handle(acl, req)
    /\ rres # None =>
           \A answer \in (IF rans = None THEN Answers ELSE {rans}) :
               rres = resolve(acl, rname, answer).res

ToggleCase ==
    /\ q.fn = "is_ip_allowed"
    /\ acl.allowed_ip_ranges = <<>> /\ acl.denied_ip_ranges = <<>>
    /\ acl.ip_acl_default
    /\ ~is_global_ip(q.arg)

\* the same for the policy of the legacy crate
LegacyToggleCase ==
    /\ q.fn = "legacy_is_ip_allowed"
    /\ lacl.allowed_ip_ranges = <<>> /\ lacl.denied_ip_ranges = <<>>
    /\ lacl.ip_acl_default
    /\ ~is_global_ip(q.arg)

C24_LegacyDocumentationDenied ==
    /\ LegacyToggleCase
    /\ q.arg = <<203, 0, 113, 12>>
    /\ lacl.allow_private_ip_ranges
    /\ out = DeniedNotGlobal

(***************************************************************************)
(* C25: is_allowed and is_denied split the classifications                 *)
(***************************************************************************)
AllowedTags == {"AllowedUserAcl", "AllowedDefault"}

\* C25: for every AclClassification value of either crate exactly one of
\* is_allowed() and is_denied() is true, is_allowed() is true exactly for
\* AllowedUserAcl and AllowedDefault, and an adapter that tests is_denied
\* reaches the verdict of one that tests is_allowed
C25_AllowedXorDenied ==
    /\ q.fn = "is_allowed" => q.arg = (out.tag \in AllowedTags) /\ q.arg # is_denied(out)
    /\ q.fn = "is_denied" => q.arg = (out.tag \notin AllowedTags) /\ q.arg # is_allowed(out)
    /\ q.fn = "legacy_is_allowed" =>
           q.arg = (out.tag \in AllowedTags) /\ q.arg # legacy_is_denied(out)
    /\ q.fn = "legacy_is_denied" =>
           q.arg = (out.tag \notin AllowedTags) /\ q.arg # is_allowed(out)
    /\ q.fn = "handle_passes" => q.arg = is_allowed(out)
    /\ q.fn = "resolve_keeps" => q.arg = ~is_denied(out)

\* is_denied answered true for a Denied with a reason
C25_Witness ==
    /\ q.fn = "is_denied"
    /\ out = Denied("blocked")
    /\ q.arg

\* the legacy is_denied answered true for DeniedPrivateRange
C25_LegacyPrivateRange ==
    /\ q.fn = "legacy_is_denied"
    /\ out = DeniedPrivateRange
    /\ q.arg

(***************************************************************************)
(* C26: has_overlapping_ranges against range_overlaps                      *)
(***************************************************************************)
\* the ranges at two positions of the list in q share a value
ShareValue(i, j) ==
    IF q.T = "u16"
    THEN \E port \in RangePorts :
             PortRangeContains(q.arg[i], port) /\ PortRangeContains(q.arg[j], port)
    ELSE \E ip \in RangeIps :
             IpRangeContains(q.arg[i], ip) /\ IpRangeContains(q.arg[j], ip)

\* some two distinct positions share a value
SomeTwoShare == \E i, j \in 1..Len(q.arg) : i # j /\ ShareValue(i, j)

\* range_overlaps(list, list[i], Some(i)) for the list in q
OverlapsAt(i) ==
    IF q.T = "u16" THEN range_overlaps_u16(q.arg, q.arg[i], Some(i))
    ELSE range_overlaps_ip(q.arg, q.arg[i], Some(i))

\* C26: on every list of ranges with start <= end, has_overlapping_ranges
\* is true exactly when two distinct positions hold ranges that share a
\* value (a single shared end point included), which is exactly when
\* range_overlaps(list, list[i], Some(i)) is true for some position i
C26_OverlapChecksAgree ==
    /\ q.fn = "has_overlapping_ranges" =>
           /\ out <=> SomeTwoShare
           /\ out <=> \E i \in 1..Len(q.arg) : OverlapsAt(i)
    /\ q.fn = "range_overlaps" =>
           out <=> \E j \in 1..Len(q.arg) : j # q.self_index.some /\ ShareValue(q.self_index.some, j)

\* three ranges of which the first and the last only touch, at 3, with a
\* range apart from both between them in the list
C26_Witness ==
    /\ q.fn = "has_overlapping_ranges"
    /\ q.arg = <<PortRange(3, 4), PortRange(1, 1), PortRange(2, 3)>>
    /\ out


(***************************************************************************)
(* C27: mutators that succeeded, then try_build                            *)
(***************************************************************************)
\* C27: from HttpAclBuilder::new(), after any sequence of mutator calls that
\* each returned successfully, try_build succeeds
C27_TryBuildAfterMutatorsSucceeds == TriedBuild => out.ok

\* allowed_methods(vec![GET, GET]) was accepted and try_build says NotUnique
C27_DuplicateMethodsRejected ==
    /\ TriedBuild
    /\ HasDuplicate(builder.moved.allowed_methods)
    /\ ~out.ok
    /\ out.err = "NotUnique"

\* denied_port_ranges(vec![8440..=8442, 8441..=8443]) was accepted and
\* try_build says Overlaps
C27_OverlappingDeniedPortsRejected ==
    /\ TriedBuild
    /\ builder.moved.denied_port_ranges = <<PortRange(8440, 8442), PortRange(8441, 8443)>>
    /\ ~out.ok
    /\ out.err = "Overlaps"

(***************************************************************************)
(* C30: add_X then remove_X                                                *)
(***************************************************************************)
AddFns ==
    {"add_allowed_method", "add_denied_method", "add_allowed_host", "add_denied_host",
     "add_allowed_port_range", "add_denied_port_range", "add_allowed_ip_range",
     "add_denied_ip_range", "add_allowed_header", "add_denied_header",
     "add_allowed_url_path", "add_denied_url_path"}

RemoveFns ==
    {"remove_allowed_method", "remove_denied_method", "remove_allowed_host",
     "remove_denied_host", "remove_allowed_port_range", "remove_denied_port_range",
     "remove_allowed_ip_range", "remove_denied_ip_range", "remove_allowed_header",
     "remove_denied_header", "remove_allowed_url_path", "remove_denied_url_path"}

\* the remove_X call that undoes fn(x), as a Result
Undo(fn, b, x) ==
    CASE fn = "add_allowed_method" -> Ok(remove_allowed_method(b, x))
      [] fn = "add_denied_method" -> Ok(remove_denied_method(b, x))
      [] fn = "add_allowed_host" -> Ok(remove_allowed_host(b, x))
      [] fn = "add_denied_host" -> Ok(remove_denied_host(b, x))
      [] fn = "add_allowed_port_range" -> Ok(remove_allowed_port_range(b, x))
      [] fn = "add_denied_port_range" -> Ok(remove_denied_port_range(b, x))
      [] fn = "add_allowed_ip_range" -> remove_allowed_ip_range(b, x)
      [] fn = "add_denied_ip_range" -> remove_denied_ip_range(b, x)
      [] fn = "add_allowed_header" -> Ok(remove_allowed_header(b, x[1]))
      [] fn = "add_denied_header" -> Ok(remove_denied_header(b, x[1]))
      [] fn = "add_allowed_url_path" -> remove_allowed_url_path(b, x)
      [] fn = "add_denied_url_path" -> remove_denied_url_path(b, x)

\* the value is in the list, or the name in the map, that fn removes from
Present(fn, b, x) ==
    CASE fn = "remove_allowed_method" -> VecContains(b.allowed_methods, x)
      [] fn = "remove_denied_method" -> VecContains(b.denied_methods, x)
      [] fn = "remove_allowed_host" -> VecContains(b.allowed_hosts, x)
      [] fn = "remove_denied_host" -> VecContains(b.denied_hosts, x)
      [] fn = "remove_allowed_port_range" -> VecContains(b.allowed_port_ranges, x)
      [] fn = "remove_denied_port_range" -> VecContains(b.denied_port_ranges, x)
      [] fn = "remove_allowed_ip_range" -> VecContains(b.allowed_ip_ranges, x)
      [] fn = "remove_denied_ip_range" -> VecContains(b.denied_ip_ranges, x)
      [] fn = "remove_allowed_header" -> x \in DOMAIN b.allowed_headers
      [] fn = "remove_denied_header" -> x \in DOMAIN b.denied_headers
      [] fn = "remove_allowed_url_path" -> VecContains(b.allowed_url_paths, x)
      [] fn = "remove_denied_url_path" -> VecContains(b.denied_url_paths, x)

\* the same lists in the same order, every other field equal, and routers
\* that match the same paths
SameBuilder(b1, b2) ==
    /\ IsBuilder(b1) /\ IsBuilder(b2)
    /\ \A f \in DOMAIN NewBuilder \ SkippedFields : b1[f] = b2[f]
    /\ SameMatches(b1.allowed_url_paths_router, b2.allowed_url_paths_router)
    /\ SameMatches(b1.denied_url_paths_router, b2.denied_url_paths_router)

\* an add_X that succeeds is undone by remove_X of the same value
AddThenRemoveRestores ==
    \A fn \in AddFns :
        (Calls(fn) /\ out'.ok) =>
            LET removed == Undo(fn, builder', q'.arg)
            IN  removed.ok /\ SameBuilder(removed.v, builder)

\* a remove_*_ip_range of a range whose start is above its end
InvalidIpRangeRemoved ==
    /\ q'.fn \in {"remove_allowed_ip_range", "remove_denied_ip_range"}
    /\ into_range(q'.arg) = None

\* C30 as stated: for every builder reachable from new(), remove_X after a
\* successful add_X of the same value gives the builder back (same lists in
\* the same order, other fields unchanged, routers matching the same
\* paths), and remove_X of a value that is not present leaves the builder
\* unchanged.
C30_RemoveUndoesAdd ==
    [][/\ AddThenRemoveRestores
       /\ \A fn \in RemoveFns :
              (Calls(fn) /\ ~Present(fn, builder, q'.arg)) =>
                  out'.ok /\ SameBuilder(builder', builder)]_vars

\* C30 amended: the same, except that remove_allowed_ip_range and
\* remove_denied_ip_range of a range whose start is above its end (which
\* is never present) return InvalidEntity and the builder is gone.
C30_RemoveUndoesAddButForInvalidIpRange ==
    [][/\ AddThenRemoveRestores
       /\ \A fn \in RemoveFns :
              (Calls(fn) /\ ~Present(fn, builder, q'.arg)) =>
                  IF InvalidIpRangeRemoved
                  THEN ~out'.ok /\ out'.err = "InvalidEntity" /\ IsConsumed(builder')
                  ELSE out'.ok /\ SameBuilder(builder', builder)]_vars

\* a URL path was added to a builder that already held one, and
\* remove_allowed_url_path of it succeeds
C30_Witness ==
    /\ q.fn = "add_allowed_url_path"
    /\ IsBuilder(builder)
    /\ out.ok
    /\ Len(builder.allowed_url_paths) >= 2
    /\ remove_allowed_url_path(builder, q.arg).ok

\* remove_allowed_ip_range of a range with start above end was rejected
C30_InvalidIpRangeRemoveRejected ==
    /\ q.fn = "remove_allowed_ip_range"
    /\ IsConsumed(builder)
    /\ ~out.ok
    /\ out.err = "InvalidEntity"


(***************************************************************************)
(* C28, C29: what handle lets through                                      *)
(***************************************************************************)
\* handle has run on the request in req
Handled == req # None /\ hres # None

\* C28: a request whose URL host string is an entry of denied_hosts, IP
\* literals included, is rejected by handle and not forwarded
C28_DeniedHostRejected ==
    (Handled /\ req.host # None /\ req.host \in acl.denied_hosts) => hres.kind = "err"

\* add_denied_host accepts the IP literal and handle forwards a request to it
C28_DeniedIpLiteralForwarded ==
    /\ Handled
    /\ is_valid_host(req.host)
    /\ req.host = IpLiteralHost
    /\ req.host \in acl.denied_hosts
    /\ is_denied(is_host_allowed(acl, req.host))
    /\ hres = Forwarded
    /\ pc = "connected"

\* some header of the request is denied by is_header_allowed
HeaderDenied(a, r) ==
    \E i \in 1..Len(r.headers) :
        is_denied(is_header_allowed(a, r.headers[i][1], r.headers[i][2]))

\* is_valid on the request as handle sees it returns a denied classification
CallbackDenies(a, r) ==
    LET authority == AuthorityParse(AuthorityText(r.host, "")) IN
    authority.ok /\ is_denied(is_valid(a, r.scheme, authority, r.headers, r.body))

\* C29: a request that carries a header for which is_header_allowed is
\* denied, or for which is_valid returns a denied classification, is
\* rejected by handle and never forwarded
C29_HeadersAndCallbackEnforced ==
    (Handled /\ (HeaderDenied(acl, req) \/ CallbackDenies(acl, req))) => hres.kind = "err"

\* a request with a denied header was forwarded and resolved
C29_DeniedHeaderForwarded ==
    /\ Handled
    /\ HeaderDenied(acl, req)
    /\ acl.validate_fn = None
    /\ hres = Forwarded
    /\ pc = "resolved"

\* a request the callback denies was forwarded and resolved
C29_CallbackDeniedForwarded ==
    /\ Handled
    /\ ~HeaderDenied(acl, req)
    /\ CallbackDenies(acl, req)
    /\ hres = Forwarded
    /\ pc = "resolved"

====
